---- MODULE Spec2Model ----
(***************************************************************************)
(* A model of the pisces sample codecs: the e-compression codec            *)
(* (e_compression.c) and the datatype transcoder's planner (convdata.c).   *)
(*                                                                         *)
(* A 32-bit word is modelled by its value as a signed two's-complement     *)
(* integer in -2^31 .. 2^31-1.  A word of a compressed stream is the       *)
(* big-endian (network order) reading of its four bytes, which is what     *)
(* ntohl() yields and what htonl() stores; the two 16-bit header fields    *)
(* read with ntohs() are the high and the low half of that word.           *)
(* All arithmetic is carried out on 16-bit halves so that no intermediate  *)
(* value leaves the 32-bit range.                                          *)
(***************************************************************************)
EXTENDS Integers, Sequences, FiniteSets, TLC

VARIABLES
    dcall,      \* e_decomp: one activation record per caller
    unbuf,      \* e_decomp: static int32_t unbuf[EC_MAX_BUFFER]
    ecall,      \* e_comp: the activation record of the call
    conv        \* transcoder: the call of convfunc/convdata and its outcome

vars == <<dcall, unbuf, ecall, conv>>

(***************************************************************************)
(* Return codes and constants of e_compression.h                           *)
(***************************************************************************)
EC_SUCCESS == 0
EC_FAILED == 1
EC_LENGTH_ERROR == 2
EC_SAMP_ERROR == 3
EC_DIFF_ERROR == 4
EC_CHECK_ERROR == 5
EC_ARG_ERROR == 6
EC_TYPE_ERROR == 7
EC_MEMORY_ERROR == 8
EC_FULL_END == 0
EC_SHORT_END == 1
EC_MAX_BUFFER == 16384
EC_MAX_NDIFF == 4
SIZEOF_INT32 == 4
INT32_MAX == 2147483647

(***************************************************************************)
(* 32-bit two's-complement arithmetic                                      *)
(***************************************************************************)
W16 == 65536

Pow2(n) == 2 ^ n

\* the signed value of a 16-bit pattern
S16(h) == ((h + 32768) % W16) - 32768

\* the word with (unsigned or signed) high half h and low half l
MkW(h, l) == S16(h) * W16 + l

Hi(w) == w \div W16
Lo(w) == w % W16

\* a + b and a - b modulo 2^32 (uint32_t arithmetic; int32_t on the usual builds)
AddW(a, b) ==
    LET l == Lo(a) + Lo(b)
        h == Hi(a) + Hi(b) + (l \div W16)
    IN  MkW(h, l % W16)

SubW(a, b) ==
    LET l == Lo(a) - Lo(b)
        h == Hi(a) - Hi(b) + (l \div W16)
    IN  MkW(h, l % W16)

\* bits lo .. lo+n-1 of word w, as an unsigned number
Bits(w, lo, n) == (w \div Pow2(lo)) % Pow2(n)

\* the signed value of an n-bit field (the << then arithmetic >> of the decoder)
SignExt(v, n) == IF v >= Pow2(n - 1) THEN v - Pow2(n) ELSE v

\* the word whose top four bits are top4 and whose low 28 bits are low28
WordOf(top4, low28) == (IF top4 >= 8 THEN top4 - 16 ELSE top4) * Pow2(28) + low28

\* (uint32_t)ABS(x), as the pair of its 16-bit halves (ABS of INT_MIN is 2^31)
AbsHi(x) == IF x >= 0 THEN Hi(x) ELSE IF Lo(x) = 0 THEN 0 - Hi(x) ELSE (0 - Hi(x)) - 1
AbsLo(x) == IF x >= 0 THEN Lo(x) ELSE (W16 - Lo(x)) % W16

\* EC_MAKECHECK(x) up to the comparison made of it: the low 24 bits
EC_MAKECHECK(x) == x % Pow2(24)

(***************************************************************************)
(* Memory                                                                  *)
(***************************************************************************)
\* word i (from 0) of the input area mem; past its end lies the word `beyond`
RdWord(mem, beyond, i) == IF i < Len(mem) THEN mem[i + 1] ELSE beyond

\* a static array holding the words u, all further elements still zero
RdBuf(u, i) == IF i < Len(u) THEN u[i + 1] ELSE 0

\* the array u after its first Len(w) elements were overwritten by w
WrBuf(u, w) == w \o SubSeq(u, Len(w) + 1, Len(u))

Max(a, b) == IF a >= b THEN a ELSE b
Min(a, b) == IF a <= b THEN a ELSE b

(***************************************************************************)
(* block_e_decomp                                                          *)
(***************************************************************************)
index_map == <<0, 0, 0, 0, 0, 0, 0, 0, 1, 1, 1, 1, 2, 3, 4, 5>>

\* the packet kind announced by word w
PacketIndex(w) == index_map[Bits(w, 28, 4) + 1]

\* words a packet of kind k takes
PacketWords(k) == IF k \in {0, 3, 4} THEN 2 ELSE 1

\* the samples of a packet of kind k held in words w1 (and w2)
Unpack(k, w1, w2) ==
    CASE k = 0 -> << SignExt(Bits(w1, 22, 9), 9),
                     SignExt(Bits(w1, 13, 9), 9),
                     SignExt(Bits(w1, 4, 9), 9),
                     SignExt(Bits(w1, 0, 4) * 32, 9) + Bits(w2, 27, 5),
                     SignExt(Bits(w2, 18, 9), 9),
                     SignExt(Bits(w2, 9, 9), 9),
                     SignExt(Bits(w2, 0, 9), 9) >>
      [] k = 1 -> << SignExt(Bits(w1, 20, 10), 10),
                     SignExt(Bits(w1, 10, 10), 10),
                     SignExt(Bits(w1, 0, 10), 10) >>
      [] k = 2 -> << SignExt(Bits(w1, 21, 7), 7),
                     SignExt(Bits(w1, 14, 7), 7),
                     SignExt(Bits(w1, 7, 7), 7),
                     SignExt(Bits(w1, 0, 7), 7) >>
      [] k = 3 -> << SignExt(Bits(w1, 16, 12), 12),
                     SignExt(Bits(w1, 4, 12), 12),
                     SignExt(Bits(w1, 0, 4) * 256, 12) + Bits(w2, 24, 8),
                     SignExt(Bits(w2, 12, 12), 12),
                     SignExt(Bits(w2, 0, 12), 12) >>
      [] k = 4 -> << SignExt(Bits(w1, 13, 15), 15),
                     SignExt(Bits(w1, 0, 13) * 4, 15) + Bits(w2, 30, 2),
                     SignExt(Bits(w2, 15, 15), 15),
                     SignExt(Bits(w2, 0, 15), 15) >>
      [] OTHER -> << SignExt(Bits(w1, 0, 28), 28) >>

\* one iteration of  while (samps < *nsamp) switch (index_map[...]) : st.w
\* are the samples written so far and st.q is the next word to read
UnpackStep(mem, beyond, st, nsamp) ==
    IF Len(st.w) >= nsamp THEN st
    ELSE LET w1 == RdWord(mem, beyond, st.q)
             k == PacketIndex(w1)
             w2 == RdWord(mem, beyond, st.q + 1)
         IN  [w |-> st.w \o Unpack(k, w1, w2), q |-> st.q + PacketWords(k)]

\* n iterations of the packet loop (the loop is run by halves so that the
\* evaluation stays shallow; the iterations are made in the code's order)
RECURSIVE UnpackRun(_, _, _, _, _)
UnpackRun(mem, beyond, st, nsamp, n) ==
    IF n = 0 THEN st
    ELSE IF n = 1 THEN UnpackStep(mem, beyond, st, nsamp)
    ELSE LET mid == UnpackRun(mem, beyond, st, nsamp, n \div 2)
         IN  IF mid.q >= 0 THEN UnpackRun(mem, beyond, mid, nsamp, n - (n \div 2))
             ELSE mid

\* the packet loop of the block at word p: every packet carries a sample at
\* least, so nsamp iterations exhaust it
UnpackLoop(mem, beyond, p, nsamp) ==
    UnpackRun(mem, beyond, [w |-> <<>>, q |-> p + 2], nsamp, nsamp)

\* one iteration of  for (i = 1; i < *nsamp; i++, pout++) *pout += pout[-1]
UndiffStep(st) ==
    IF st.i >= Len(st.w) THEN st
    ELSE [w |-> [st.w EXCEPT ![st.i + 1] = AddW(st.w[st.i + 1], st.w[st.i])],
          i |-> st.i + 1]

RECURSIVE UndiffRun(_, _)
UndiffRun(st, n) ==
    IF n = 0 THEN st
    ELSE IF n = 1 THEN UndiffStep(st)
    ELSE LET mid == UndiffRun(st, n \div 2)
         IN  IF mid.i >= 0 THEN UndiffRun(mid, n - (n \div 2)) ELSE mid

\* while (ndiff--) one pass over out[1 .. nsamp-1]
RECURSIVE Undiff(_, _)
Undiff(s, ndiff) ==
    IF ndiff = 0 THEN s
    ELSE Undiff(UndiffRun([w |-> s, i |-> 1], Len(s)).w, ndiff - 1)

\* header checks shared by e_decomp and block_e_decomp (first three tests)
HeaderCheck(nbyte, nsamp) ==
    IF nsamp < 0 \/ nsamp > EC_MAX_BUFFER \div SIZEOF_INT32 THEN EC_SAMP_ERROR
    ELSE IF nbyte < 2 * SIZEOF_INT32 \/ nbyte > EC_MAX_BUFFER THEN EC_LENGTH_ERROR
    ELSE IF nbyte < nsamp + 2 * SIZEOF_INT32 \/ nbyte > (nsamp + 2) * SIZEOF_INT32
         THEN EC_SAMP_ERROR
    ELSE EC_SUCCESS

\* what block_e_decomp hands back: ret, the words w it wrote to out from
\* out[0] on, *nsamp, *nbyte, and top, the highest input word it read
BlockResult(ret, w, nsamp, nbyte, top) ==
    [ret |-> ret, w |-> w, nsamp |-> nsamp, nbyte |-> nbyte, top |-> top]

\* the end of block_e_decomp: the check of the undifferenced samples o
\* against the check value; last is what the code finds at out[nsamp - 1]
BlockChecked(nsamp, nbyte, ndiff, check, buf, junk, o, top) ==
    LET last == IF nsamp > 0 THEN o[nsamp]
                ELSE IF ndiff > 0 THEN RdBuf(buf, 0)
                ELSE junk
    IN  IF check # EC_MAKECHECK(last)
        THEN BlockResult(EC_CHECK_ERROR, o, nsamp, nbyte, top)
        ELSE BlockResult(EC_SUCCESS, o, nsamp, nbyte, top)

\* BlockUnpacked without the comparison of samps and *nsamp
BlockUnpacked_NoCount(nsamp, nbyte, ndiff, check, buf, junk, u) ==
    BlockChecked(nsamp, nbyte, ndiff, check, buf, junk, Undiff(u.w, ndiff), u.q - 1)

\* block_e_decomp after the packet loop left the samples u.w, having read up
\* to word u.q - 1: the count of the samples, then the undifferencing
BlockUnpacked(nsamp, nbyte, ndiff, check, buf, junk, u) ==
    IF Len(u.w) # nsamp THEN BlockResult(EC_SAMP_ERROR, u.w, nsamp, nbyte, u.q - 1)
    ELSE BlockChecked(nsamp, nbyte, ndiff, check, buf, junk, Undiff(u.w, ndiff),
                      u.q - 1)

\* block_e_decomp(in + p, out).  buf is the out array before the call and
\* junk the word found at out[-1]; a block of no sample has its check
\* compared with one of them.
BlockDecomp(mem, beyond, p, buf, junk) ==
    LET hdr == RdWord(mem, beyond, p)
        nbyte == Bits(hdr, 16, 16)
        nsamp == Bits(hdr, 0, 16)
        hc == HeaderCheck(nbyte, nsamp)
        ctl == RdWord(mem, beyond, p + 1)
    IN  IF hc # EC_SUCCESS THEN BlockResult(hc, <<>>, nsamp, nbyte, p)
        ELSE IF Bits(ctl, 28, 1) = 1
        THEN IF nbyte # (nsamp + 2) * SIZEOF_INT32
             THEN BlockResult(EC_LENGTH_ERROR, <<>>, nsamp, nbyte, p + 1)
             ELSE BlockResult(EC_SUCCESS,
                              [k \in 1..nsamp |-> RdWord(mem, beyond, p + 1 + k)],
                              nsamp, nbyte, p + 1 + nsamp)
        ELSE IF Bits(ctl, 24, 4) > EC_MAX_NDIFF
             THEN BlockResult(EC_DIFF_ERROR, <<>>, nsamp, nbyte, p + 1)
        ELSE BlockUnpacked(nsamp, nbyte, Bits(ctl, 24, 4), EC_MAKECHECK(ctl), buf,
                           junk, UnpackLoop(mem, beyond, p, nsamp))

(***************************************************************************)
(* e_decomp                                                                *)
(*                                                                         *)
(* An activation record c holds the arguments (mem and beyond: the memory  *)
(* at in; nullin, nullout: whether in, out are null pointers), over (what  *)
(* the build makes of a test on an overflowed sum), the locals,            *)
(* the output array out (a cell is <<>> until it is written, then <<v>>),  *)
(* and what the call did: top, the highest input word read (-1: none),     *)
(* blocks, the offsets block_e_decomp was called on, berr, the code of the *)
(* block decode that failed (0: none), herr, the code of the header        *)
(* validation that failed (0: none), and bread, the highest input word the *)
(* last block decode read.  pc is the position:                            *)
(*   "entry"  before the argument checks                                   *)
(*   "skip"   at the test of the skip loop                                 *)
(*   "loop"   at the test of the decode loop                               *)
(*   "copy"   before the memcpy inside the decode loop                     *)
(*   "last"   before the memcpy of the final fragment                      *)
(*   "done"   returned, with code ret                                      *)
(***************************************************************************)
\* the cells of out a call may reach: outsamp of them, and no more than the
\* samples the words of the input can announce (nbyte >= nsamp + 8)
OutCells(mem, outsamp) == Min(Max(outsamp, 0), SIZEOF_INT32 * Len(mem))

NewCall(mem, beyond, nullin, nullout, insamp, inbyte, out0, outsamp, over) ==
    [mem |-> mem, beyond |-> beyond, nullin |-> nullin, nullout |-> nullout,
     insamp |-> insamp, inbyte |-> inbyte, out0 |-> out0, outsamp |-> outsamp,
     over |-> over, pc |-> "entry", p |-> 0, skipsamp |-> 0, packsamp |-> 0,
     packbyte |-> 0,
     nsamp |-> 0, unbuf0 |-> 0, ret |-> -1,
     out |-> [i \in 1..OutCells(mem, outsamp) |-> <<>>],
     top |-> -1, blocks |-> <<>>, berr |-> 0, herr |-> 0,
     bread |-> -1]

\* uint32_t *lastin = in + (inbyte / sizeof(uint32_t)), as a word offset
LastIn(c) == c.inbyte \div SIZEOF_INT32

Return(c, code) == [c EXCEPT !.pc = "done", !.ret = code]

\* ReadHeader with a test of the count of differences in the control word
ReadHeader_Ctl(c, p) ==
    LET hdr == RdWord(c.mem, c.beyond, p)
        packbyte == Bits(hdr, 16, 16)
        packsamp == Bits(hdr, 0, 16)
        hc == HeaderCheck(packbyte, packsamp)
    IN  [ret |-> IF hc # EC_SUCCESS THEN hc
                 ELSE IF packbyte % SIZEOF_INT32 # 0 THEN EC_LENGTH_ERROR
                 ELSE IF p + (packbyte \div SIZEOF_INT32) > LastIn(c)
                      THEN EC_LENGTH_ERROR
                 ELSE IF Bits(RdWord(c.mem, c.beyond, p + 1), 24, 4) > EC_MAX_NDIFF
                      THEN EC_DIFF_ERROR
                 ELSE EC_SUCCESS,
         packbyte |-> packbyte \div SIZEOF_INT32,
         packsamp |-> packsamp]

\* read and validate the header of the block at word p: the code to return
\* (EC_SUCCESS: go on) and the block's length in words and its samples
ReadHeader(c, p) ==
    LET hdr == RdWord(c.mem, c.beyond, p)
        packbyte == Bits(hdr, 16, 16)
        packsamp == Bits(hdr, 0, 16)
        hc == HeaderCheck(packbyte, packsamp)
    IN  [ret |-> IF hc # EC_SUCCESS THEN hc
                 ELSE IF packbyte % SIZEOF_INT32 # 0 THEN EC_LENGTH_ERROR
                 ELSE IF p + (packbyte \div SIZEOF_INT32) > LastIn(c)
                      THEN EC_LENGTH_ERROR
                 ELSE EC_SUCCESS,
         packbyte |-> packbyte \div SIZEOF_INT32,
         packsamp |-> packsamp]

\* c after the header at p was read, on the way to position pc
WithHeader(c, p, pc) ==
    LET h == ReadHeader(c, p)
        c1 == [c EXCEPT !.p = p, !.top = Max(@, p)]
    IN  IF h.ret # EC_SUCCESS THEN Return([c1 EXCEPT !.herr = h.ret], h.ret)
        ELSE [c1 EXCEPT !.packbyte = h.packbyte, !.packsamp = h.packsamp, !.pc = pc]

\* (out0 + outsamp) > insamp, evaluated once 0 <= out0 and 0 < outsamp are
\* known.  A sum above INT32_MAX overflows the int32_t addition, which is
\* undefined: the test then yields c.over, what the build makes of it.
WindowEnd(c) ==
    IF c.out0 > 0 /\ c.outsamp > INT32_MAX - c.out0 THEN c.over
    ELSE c.out0 + c.outsamp > c.insamp

\* the argument checks and the first header
DEntry(c) ==
    IF c.outsamp = 0 THEN Return(c, EC_SUCCESS)
    ELSE IF c.nullin \/ c.nullout \/ c.insamp <= 0 \/ c.inbyte <= 0 \/ c.out0 < 0
            \/ c.out0 >= c.insamp \/ c.outsamp <= 0 \/ WindowEnd(c)
         THEN Return(c, EC_ARG_ERROR)
    ELSE WithHeader(c, 0, "skip")

\* DSkip that leaves the offset into the first decoded block at 0
DSkip_NoOffset(c) ==
    IF c.skipsamp + c.packsamp <= c.out0
    THEN WithHeader([c EXCEPT !.skipsamp = @ + c.packsamp], c.p + c.packbyte, "skip")
    ELSE [c EXCEPT !.pc = "loop"]

\* the test of  while ((skipsamp + packsamp) <= out0)  and one iteration
DSkip(c) ==
    IF c.skipsamp + c.packsamp <= c.out0
    THEN WithHeader([c EXCEPT !.skipsamp = @ + c.packsamp], c.p + c.packbyte, "skip")
    ELSE [c EXCEPT !.unbuf0 = c.out0 - c.skipsamp, !.pc = "loop"]

\* DecodeDone that goes on after a failed block decode
DecodeDone_GoOn(c, u, pc, r) ==
    [c |-> [c EXCEPT !.top = Max(@, r.top), !.blocks = Append(@, c.p),
                     !.bread = r.top, !.pc = pc,
                     !.berr = IF r.ret # EC_SUCCESS THEN r.ret ELSE @],
     u |-> WrBuf(u, r.w)]

\* the test of the code r.ret block_e_decomp returned, with what the call
\* left in the static array
DecodeDone(c, u, pc, r) ==
    [c |-> IF r.ret # EC_SUCCESS
           THEN [c EXCEPT !.top = Max(@, r.top), !.blocks = Append(@, c.p),
                          !.bread = r.top, !.berr = r.ret,
                          !.pc = "done", !.ret = r.ret]
           ELSE [c EXCEPT !.top = Max(@, r.top), !.blocks = Append(@, c.p),
                          !.bread = r.top, !.pc = pc],
     u |-> WrBuf(u, r.w)]

\* ret = block_e_decomp(in, unbuf, &bsamp, &bbyte) and the test of ret;
\* yields the record and the static array
DecodeBlock(c, u, junk, pc) ==
    DecodeDone(c, u, pc, BlockDecomp(c.mem, c.beyond, c.p, u, junk))

\* the test of  while ((nsamp + packsamp - unbuf0) <= outsamp)  with the
\* block decode that follows it, or  if (nsamp < outsamp)  with its decode
DLoop(c, u, junk) ==
    IF c.nsamp + c.packsamp - c.unbuf0 <= c.outsamp
    THEN DecodeBlock(c, u, junk, "copy")
    ELSE IF c.nsamp < c.outsamp THEN DecodeBlock(c, u, junk, "last")
    ELSE [c |-> Return(c, EC_SUCCESS), u |-> u]

\* memcpy(out + nsamp, unbuf + unbuf0, cnt * sizeof(int32_t))
CopyOut(c, u, cnt) ==
    [i \in 1..Len(c.out) |->
        IF c.nsamp < i /\ i <= c.nsamp + cnt
        THEN <<RdBuf(u, c.unbuf0 + (i - c.nsamp) - 1)>>
        ELSE c.out[i]]

\* the rest of an iteration of the decode loop: the copy, and the advance to
\* the next header unless all samples are there
DCopy(c, u) ==
    LET cnt == c.packsamp - c.unbuf0
        c1 == [c EXCEPT !.out = CopyOut(c, u, cnt), !.nsamp = @ + cnt, !.unbuf0 = 0]
    IN  IF c1.nsamp = c1.outsamp THEN Return(c1, EC_SUCCESS)
        ELSE WithHeader(c1, c1.p + c1.packbyte, "loop")

\* the copy of the final fragment
DLast(c, u) ==
    Return([c EXCEPT !.out = CopyOut(c, u, c.outsamp - c.nsamp)], EC_SUCCESS)

\* the call run from its position to its return, alone: the record and the
\* static array it leaves
RECURSIVE EDecompRun(_, _, _)
EDecompRun(c, u, junk) ==
    CASE c.pc = "entry" -> EDecompRun(DEntry(c), u, junk)
      [] c.pc = "skip" -> EDecompRun(DSkip(c), u, junk)
      [] c.pc = "loop" -> LET r == DLoop(c, u, junk) IN EDecompRun(r.c, r.u, junk)
      [] c.pc = "copy" -> EDecompRun(DCopy(c, u), u, junk)
      [] c.pc = "last" -> EDecompRun(DLast(c, u), u, junk)
      [] OTHER -> [c |-> c, u |-> u]

\* e_decomp(in, out, insamp, inbyte, out0, outsamp) as a function of its
\* arguments and of the static array
EDecomp(mem, beyond, insamp, inbyte, out0, outsamp, u, junk) ==
    EDecompRun(NewCall(mem, beyond, FALSE, FALSE, insamp, inbyte, out0, outsamp,
                       FALSE), u, junk).c

(***************************************************************************)
(* e_comp                                                                  *)
(*                                                                         *)
(* A datatype tag is the record [c, n] of its first character and of       *)
(* datatype[1] - '0'.  The static tables a, d, dmaxbit and dsum are        *)
(* rebuilt from the input at the head of every iteration of the block loop *)
(* (samp0 stays 0) before anything reads them, so that within one call     *)
(* they are functions of the samples the iteration starts at.              *)
(***************************************************************************)
EC_UNCOMP == 268435456

\* the block byte budget of a tag, or -1 where e_comp returns EC_TYPE_ERROR
BufBytes(tag) ==
    IF tag.c = "e"
    THEN IF tag.n < 0 \/ tag.n > 8 THEN -1
         ELSE IF tag.n = 0 THEN 1024 ELSE tag.n * 2048
    ELSE IF tag.c = "E"
    THEN IF tag.n < 0 \/ tag.n > 9 THEN -1
         ELSE IF tag.n = 0 THEN 1200 ELSE (tag.n + 1) * 400
    ELSE -1

BufInts(bufbytes) == (bufbytes \div SIZEOF_INT32) - 2

\* d[j] from d[j-1]:  d[j][0] = in[0],  d[j][i] = d[j-1][i] - d[j-1][i-1]
NextRow(prev) ==
    [i \in 1..Len(prev) |-> IF i = 1 THEN prev[1] ELSE SubW(prev[i], prev[i - 1])]

\* the rows d[0] .. d[EC_MAX_NDIFF] over the samples x
DiffRows(x) ==
    LET r1 == NextRow(x)
        r2 == NextRow(r1)
        r3 == NextRow(r2)
        r4 == NextRow(r3)
    IN  <<x, r1, r2, r3, r4>>

\* dmaxbit[j] & 0xf8000000 for the row r: the OR of a[j][0 .. maxdiff-1] has
\* one of these bits exactly when one of the values has
MaxBitHigh(r, maxdiff) == \E i \in 1..maxdiff : AbsHi(r[i]) >= 2048

\* the sums of the high and of the low halves of a[j][lo .. hi]
RECURSIVE AbsSum(_, _, _)
AbsSum(r, lo, hi) ==
    IF lo > hi THEN [h |-> 0, l |-> 0]
    ELSE IF lo = hi THEN [h |-> AbsHi(r[lo]), l |-> AbsLo(r[lo])]
    ELSE LET m == (lo + hi) \div 2
             x == AbsSum(r, lo, m)
             y == AbsSum(r, m + 1, hi)
         IN  [h |-> x.h + y.h, l |-> x.l + y.l]

\* dsum[j]: the sum of a[j][0 .. maxsamp-1] (exact in a double), in units of
\* 2^16 and the rest
DSum(r, maxsamp) ==
    LET s == AbsSum(r, 1, maxsamp)
    IN  [h |-> s.h + (s.l \div W16), l |-> s.l % W16]

SumLess(x, y) == x.h < y.h \/ (x.h = y.h /\ x.l < y.l)

\* the choice of the difference: the first row with no value of 2^27 or
\* more among the first maxdiff, then any later such row of smaller sum;
\* -1 when there is none
RECURSIVE Better(_, _, _, _, _)
Better(rows, maxdiff, maxsamp, best, j) ==
    IF j > EC_MAX_NDIFF THEN best
    ELSE IF MaxBitHigh(rows[j + 1], maxdiff)
    THEN Better(rows, maxdiff, maxsamp, best, j + 1)
    ELSE IF SumLess(DSum(rows[j + 1], maxsamp), DSum(rows[best + 1], maxsamp))
    THEN Better(rows, maxdiff, maxsamp, j, j + 1)
    ELSE Better(rows, maxdiff, maxsamp, best, j + 1)

\* DChoose without the comparison of the sums
DChoose_First(rows, maxdiff, maxsamp) ==
    LET ok == {j \in 0..EC_MAX_NDIFF : ~MaxBitHigh(rows[j + 1], maxdiff)}
    IN  IF ok = {} THEN -1 ELSE CHOOSE j \in ok : \A k \in ok : j <= k

DChoose(rows, maxdiff, maxsamp) ==
    LET ok == {j \in 0..EC_MAX_NDIFF : ~MaxBitHigh(rows[j + 1], maxdiff)}
    IN  IF ok = {} THEN -1
        ELSE LET first == CHOOSE j \in ok : \A k \in ok : j <= k
             IN  Better(rows, maxdiff, maxsamp, first, first + 1)

\* pa[0 .. n-1] < 2^b at sample pd (from 0) of row r
AllBelow(r, pd, n, b) ==
    \A k \in 1..n :
        IF b >= 16 THEN AbsHi(r[pd + k]) < Pow2(b - 16)
        ELSE AbsHi(r[pd + k]) = 0 /\ AbsLo(r[pd + k]) < Pow2(b)

\* pd[k] & mask: the low n bits of sample pd + k (k from 0) of row r
Fld(r, pd, k, n) == r[pd + k + 1] % Pow2(n)

\* the packets, as the words stored with htonl
Pack7(r, pd) ==
    << WordOf(12, Fld(r, pd, 0, 7) * Pow2(21) + Fld(r, pd, 1, 7) * Pow2(14)
                  + Fld(r, pd, 2, 7) * Pow2(7) + Fld(r, pd, 3, 7)) >>

Pack9(r, pd) ==
    << WordOf(Fld(r, pd, 0, 9) \div 64,
              (Fld(r, pd, 0, 9) % 64) * Pow2(22) + Fld(r, pd, 1, 9) * Pow2(13)
                  + Fld(r, pd, 2, 9) * 16 + (Fld(r, pd, 3, 9) \div 32)),
       WordOf(Fld(r, pd, 3, 5) \div 2,
              (Fld(r, pd, 3, 5) % 2) * Pow2(27) + Fld(r, pd, 4, 9) * Pow2(18)
                  + Fld(r, pd, 5, 9) * Pow2(9) + Fld(r, pd, 6, 9)) >>

Pack10(r, pd) ==
    << WordOf(8 + (Fld(r, pd, 0, 10) \div 256),
              (Fld(r, pd, 0, 10) % 256) * Pow2(20) + Fld(r, pd, 1, 10) * Pow2(10)
                  + Fld(r, pd, 2, 10)) >>

Pack12(r, pd) ==
    << WordOf(13, Fld(r, pd, 0, 12) * Pow2(16) + Fld(r, pd, 1, 12) * 16
                  + (Fld(r, pd, 2, 12) \div 256)),
       WordOf(Fld(r, pd, 2, 8) \div 16,
              (Fld(r, pd, 2, 8) % 16) * Pow2(24) + Fld(r, pd, 3, 12) * Pow2(12)
                  + Fld(r, pd, 4, 12)) >>

Pack15(r, pd) ==
    << WordOf(14, Fld(r, pd, 0, 15) * Pow2(13) + (Fld(r, pd, 1, 15) \div 4)),
       WordOf(Fld(r, pd, 1, 2) * 4 + (Fld(r, pd, 2, 15) \div Pow2(13)),
              (Fld(r, pd, 2, 15) % Pow2(13)) * Pow2(15) + Fld(r, pd, 3, 15)) >>

Pack28(r, pd) == << WordOf(15, Fld(r, pd, 0, 28)) >>

\* one iteration of  while (out < outmax && pd < pdmax) : st.w are the packet
\* words stored so far, st.pd the samples packed, st.brk whether the loop was
\* left by its break
PackStep(r, maxsamp, bufints, st) ==
    LET left == maxsamp - st.pd
        room == bufints - Len(st.w)
        put(w, n) == [st EXCEPT !.w = @ \o w, !.pd = @ + n]
    IN  IF st.brk \/ ~(room > 0 /\ left > 0) THEN st
        ELSE IF left >= 4 /\ AllBelow(r, st.pd, 4, 6) THEN put(Pack7(r, st.pd), 4)
        ELSE IF left >= 7 /\ room > 1 /\ AllBelow(r, st.pd, 7, 8)
             THEN put(Pack9(r, st.pd), 7)
        ELSE IF left >= 3 /\ AllBelow(r, st.pd, 3, 9) THEN put(Pack10(r, st.pd), 3)
        ELSE IF left >= 5 /\ room > 1 /\ AllBelow(r, st.pd, 5, 11)
             THEN put(Pack12(r, st.pd), 5)
        ELSE IF left >= 4 /\ room > 1 /\ AllBelow(r, st.pd, 4, 14)
             THEN put(Pack15(r, st.pd), 4)
        ELSE IF AllBelow(r, st.pd, 1, 28) THEN put(Pack28(r, st.pd), 1)
        ELSE [st EXCEPT !.brk = TRUE]

RECURSIVE PackRun(_, _, _, _, _)
PackRun(r, maxsamp, bufints, st, n) ==
    IF n = 0 THEN st
    ELSE IF n = 1 THEN PackStep(r, maxsamp, bufints, st)
    ELSE LET mid == PackRun(r, maxsamp, bufints, st, n \div 2)
         IN  IF mid.pd >= 0 THEN PackRun(r, maxsamp, bufints, mid, n - (n \div 2))
             ELSE mid

\* the packet loop: every iteration stores a word at least or leaves the
\* loop, so bufints iterations exhaust it
PackLoop(r, maxsamp, bufints) ==
    PackRun(r, maxsamp, bufints, [w |-> <<>>, pd |-> 0, brk |-> FALSE], bufints)

Zeros(n) == [i \in 1..n |-> 0]

\* the header word: nbyte and nsamp stored with htons
Header(nbyte, nsamp) == MkW(nbyte % W16, nsamp % W16)

MaxSamp(insamp, bufbytes) == IF insamp > bufbytes THEN bufbytes ELSE insamp
MaxDiff(insamp, bufbytes) ==
    IF insamp > BufInts(bufbytes) THEN BufInts(bufbytes) ELSE insamp

\* what an iteration of the block loop did: the words w stored from out on,
\* the words pad behind them that belong to the block and were left 0 by the
\* memset, the samples consumed, the bytes added to *outbytes, whether the
\* call returns, and, of the block, its kind, its differences and whether
\* its packet loop was left by the break
BlockOut(w, nbyte, didsamp, last, unc, ndiff, brk) ==
    [w |-> w, pad |-> (nbyte \div SIZEOF_INT32) - Len(w), didsamp |-> didsamp,
     nbyte |-> nbyte, last |-> last, unc |-> unc, ndiff |-> ndiff, brk |-> brk]

\* Verbatim with the last block as long as the others whatever block_flag
Verbatim_Full(x, insamp, bufbytes, block_flag) ==
    IF insamp > BufInts(bufbytes)
    THEN BlockOut(<<Header(bufbytes, BufInts(bufbytes)), EC_UNCOMP>>
                      \o SubSeq(x, 1, BufInts(bufbytes)),
                  bufbytes, BufInts(bufbytes), FALSE, TRUE, 0, FALSE)
    ELSE BlockOut(<<Header(bufbytes, insamp), EC_UNCOMP>> \o SubSeq(x, 1, insamp),
                  bufbytes, insamp, TRUE, TRUE, 0, FALSE)

\* the block left uncompressed (dchoose < 0)
Verbatim(x, insamp, bufbytes, block_flag) ==
    IF insamp > BufInts(bufbytes)
    THEN BlockOut(<<Header(bufbytes, BufInts(bufbytes)), EC_UNCOMP>>
                      \o SubSeq(x, 1, BufInts(bufbytes)),
                  bufbytes, BufInts(bufbytes), FALSE, TRUE, 0, FALSE)
    ELSE LET nb == IF block_flag = EC_SHORT_END
                   THEN SIZEOF_INT32 * (insamp + 2) ELSE bufbytes
         IN  BlockOut(<<Header(nb, insamp), EC_UNCOMP>> \o SubSeq(x, 1, insamp),
                      nb, insamp, TRUE, TRUE, 0, FALSE)

\* Packed with the check value of the first sample of the block
Packed_CheckFirst(x, insamp, bufbytes, block_flag, dchoose, pk) ==
    LET ctl == dchoose * Pow2(24) + EC_MAKECHECK(x[1])
        last == insamp - pk.pd = 0
        nb == IF last /\ block_flag = EC_SHORT_END
              THEN SIZEOF_INT32 * (Len(pk.w) + 2) ELSE bufbytes
    IN  BlockOut(<<Header(nb, pk.pd), ctl>> \o pk.w, nb, pk.pd, last, FALSE,
                 dchoose, pk.brk)

\* the block of the packets pk.w, which hold pk.pd samples of d[dchoose]
Packed(x, insamp, bufbytes, block_flag, dchoose, pk) ==
    LET ctl == dchoose * Pow2(24) + EC_MAKECHECK(x[pk.pd])
        last == insamp - pk.pd = 0
        nb == IF last /\ block_flag = EC_SHORT_END
              THEN SIZEOF_INT32 * (Len(pk.w) + 2) ELSE bufbytes
    IN  BlockOut(<<Header(nb, pk.pd), ctl>> \o pk.w, nb, pk.pd, last, FALSE,
                 dchoose, pk.brk)

\* an iteration of the block loop once the difference is chosen
EncodeChosen(x, insamp, bufbytes, block_flag, rows, dchoose) ==
    IF dchoose < 0 THEN Verbatim(x, insamp, bufbytes, block_flag)
    ELSE Packed(x, insamp, bufbytes, block_flag, dchoose,
                PackLoop(rows[dchoose + 1], MaxSamp(insamp, bufbytes),
                         BufInts(bufbytes)))

\* an iteration of the block loop once the differences rows are made
EncodeRows(x, insamp, bufbytes, block_flag, rows) ==
    EncodeChosen(x, insamp, bufbytes, block_flag, rows,
                 DChoose(rows, MaxDiff(insamp, bufbytes), MaxSamp(insamp, bufbytes)))

\* one iteration of the block loop on the samples x that remain (insamp of
\* them)
EncodeBlock(x, insamp, bufbytes, block_flag) ==
    EncodeRows(x, insamp, bufbytes, block_flag,
               DiffRows(SubSeq(x, 1, MaxSamp(insamp, bufbytes))))

\* the block loop  while (in <= lastin)  from sample pin (from 0) on.  st is
\* what the call did so far: out, the words stored up to the packets of the
\* last block; pad, the zero words of the stream behind them; outbytes;
\* blks, the blocks emitted; ret, the code returned (-1: none yet)
RECURSIVE BlockLoop(_, _, _, _, _)

\* BlockNext without the return at the last block
BlockNext_NoReturn(in, bufbytes, block_flag, pin, st, b) ==
    BlockLoop(in, bufbytes, block_flag, pin + b.didsamp,
              [out |-> st.out \o b.w \o (IF b.last THEN <<>> ELSE Zeros(b.pad)),
               pad |-> IF b.last THEN b.pad ELSE 0,
               outbytes |-> st.outbytes + b.nbyte,
               blks |-> Append(st.blks, [off |-> Len(st.out), nbyte |-> b.nbyte,
                                         nsamp |-> b.didsamp, first |-> pin,
                                         unc |-> b.unc, ndiff |-> b.ndiff,
                                         brk |-> b.brk]),
               ret |-> -1])

\* the end of an iteration that made the block b from sample pin
BlockNext(in, bufbytes, block_flag, pin, st, b) ==
    LET st1 == [out |-> st.out \o b.w \o (IF b.last THEN <<>> ELSE Zeros(b.pad)),
                pad |-> IF b.last THEN b.pad ELSE 0,
                outbytes |-> st.outbytes + b.nbyte,
                blks |-> Append(st.blks, [off |-> Len(st.out), nbyte |-> b.nbyte,
                                          nsamp |-> b.didsamp, first |-> pin,
                                          unc |-> b.unc, ndiff |-> b.ndiff,
                                          brk |-> b.brk]),
                ret |-> IF b.last THEN EC_SUCCESS ELSE -1]
    IN  IF b.last THEN st1
        ELSE BlockLoop(in, bufbytes, block_flag, pin + b.didsamp, st1)

BlockLoop(in, bufbytes, block_flag, pin, st) ==
    IF pin > Len(in) - 1 THEN [st EXCEPT !.ret = EC_FAILED]
    ELSE BlockNext(in, bufbytes, block_flag, pin, st,
                   EncodeBlock(SubSeq(in, pin + 1, Len(in)), Len(in) - pin,
                               bufbytes, block_flag))

\* what a call of e_comp did: ret; out and pad as in the block loop; ob,
\* what *outbytes holds (<<>>: never written); blks, the blocks emitted
ECompResult(ret, out, pad, ob, blks) ==
    [ret |-> ret, out |-> out, pad |-> pad, ob |-> ob, blks |-> blks]

ECompLoopResult(st) == ECompResult(st.ret, st.out, st.pad, <<st.outbytes>>, st.blks)

\* e_comp(in, out, insamp, outbytes, datatype, block_flag).  in holds the
\* samples the caller owns; nullin, nullout, nullob tell the null pointers.
\* The store of 0 through a null outbytes ends the process: ret stays -1.
EComp(in, nullin, nullout, nullob, insamp, tag, block_flag) ==
    IF insamp = 0
    THEN IF nullob THEN ECompResult(-1, <<>>, 0, <<>>, <<>>)
         ELSE ECompResult(EC_SUCCESS, <<>>, 0, <<0>>, <<>>)
    ELSE IF BufBytes(tag) < 0 THEN ECompResult(EC_TYPE_ERROR, <<>>, 0, <<>>, <<>>)
    ELSE IF nullin \/ nullout \/ insamp <= 0 \/ nullob
         THEN ECompResult(EC_ARG_ERROR, <<>>, 0, <<>>, <<>>)
    ELSE ECompLoopResult(BlockLoop(SubSeq(in, 1, insamp), BufBytes(tag), block_flag,
                                   0, [ret |-> -1, out |-> <<>>, pad |-> 0,
                                       outbytes |-> 0, blks |-> <<>>]))

(***************************************************************************)
(* The steps of e_decomp as actions.  dcall holds the activation records   *)
(* of the calls in progress and unbuf the one static array they share: a   *)
(* block is decoded into unbuf in one step and copied out of it in the     *)
(* next, as in the source.                                                 *)
(***************************************************************************)
\* what a read of unbuf[-1] may find
JunkWords == {0, 1}

DecEntry ==
    \E id \in DOMAIN dcall :
        /\ dcall[id].pc = "entry"
        /\ dcall' = [dcall EXCEPT ![id] = DEntry(@)]
        /\ UNCHANGED <<unbuf, ecall, conv>>

DecSkip ==
    \E id \in DOMAIN dcall :
        /\ dcall[id].pc = "skip"
        /\ dcall' = [dcall EXCEPT ![id] = DSkip(@)]
        /\ UNCHANGED <<unbuf, ecall, conv>>

DecLoop ==
    \E id \in DOMAIN dcall, junk \in JunkWords :
        /\ dcall[id].pc = "loop"
        /\ LET r == DLoop(dcall[id], unbuf, junk)
           IN  /\ dcall' = [dcall EXCEPT ![id] = r.c]
               /\ unbuf' = r.u
        /\ UNCHANGED <<ecall, conv>>

DecCopy ==
    \E id \in DOMAIN dcall :
        /\ dcall[id].pc = "copy"
        /\ dcall' = [dcall EXCEPT ![id] = DCopy(@, unbuf)]
        /\ UNCHANGED <<unbuf, ecall, conv>>

DecLast ==
    \E id \in DOMAIN dcall :
        /\ dcall[id].pc = "last"
        /\ dcall' = [dcall EXCEPT ![id] = DLast(@, unbuf)]
        /\ UNCHANGED <<unbuf, ecall, conv>>

(***************************************************************************)
(* Streams for the decoder: sequences of blocks.  The well-formed blocks   *)
(* are what e_comp emits for a short signal, one of them with the padding  *)
(* a block may carry; the others break one rule each.                      *)
(***************************************************************************)
MaxBlocks == 3

\* the block e_comp emits for the samples x as the last, short, block
Blk(x) == EncodeBlock(x, Len(x), EC_MAX_BUFFER, EC_SHORT_END).w

\* the block b with one word of padding after its packets
PadBlk(b) == <<AddW(b[1], SIZEOF_INT32 * W16)>> \o Tail(b) \o <<0>>

GoodBlocks ==
    { Blk(<<5>>), Blk(<<100, 200, 300>>), Blk(<<268435456, -7>>),
      PadBlk(Blk(<<-9, 400, 30>>)) }

BadBlocks ==
    { <<Header(12, 1), 6, WordOf(15, 5)>>,              \* check of another sample
      <<Header(12, 1), 5 * Pow2(24) + 5, WordOf(15, 5)>>,   \* five differences
      <<Header(12, 2), 3, WordOf(8, 1 * Pow2(20) + 2 * Pow2(10) + 3)>>,
                                                        \* a packet too many samples
      <<Header(10, 1), 5, WordOf(15, 5)>>,              \* nbyte no multiple of 4
      <<Header(12, 4), 5, WordOf(15, 5)>>,              \* packets for 1 sample of 4
      <<Header(12, 2), EC_UNCOMP, 7>>,                  \* verbatim, nbyte too small
      <<Header(12, 1), 1, WordOf(0, 1)>> }              \* a packet of 7 samples for 1

RECURSIVE Flatten(_)
Flatten(bs) == IF bs = <<>> THEN <<>> ELSE Head(bs) \o Flatten(Tail(bs))

RECURSIVE TotalSamp(_)
TotalSamp(bs) == IF bs = <<>> THEN 0 ELSE Lo(Head(bs)[1]) + TotalSamp(Tail(bs))

SeqsUpTo(S, lo, hi) == UNION {[1..k -> S] : k \in lo..hi}

GoodStreams == SeqsUpTo(GoodBlocks, 1, MaxBlocks)

BadStreams ==
    { pre \o <<bad>> \o suf : pre \in SeqsUpTo(GoodBlocks, 0, MaxBlocks - 1),
                             bad \in BadBlocks,
                             suf \in {<<>>, <<Blk(<<5>>)>>} }

\* what the memory beyond the input may hold: nothing, or what looks like
\* the header of a block
BeyondWords == {0, 786433}

\* the calls a client makes on the stream bs: every window, valid or not,
\* windows of INT32_MAX samples (the sum out0 + outsamp overflows when
\* out0 > 0) and, on the whole stream, arguments that are null, not positive,
\* or do not tell the truth about the stream
CallsOn(bs) ==
    LET mem == Flatten(bs)
        n == TotalSamp(bs)
        b == SIZEOF_INT32 * Len(mem)
    IN  { NewCall(mem, 0, FALSE, FALSE, n, b, out0, outsamp, FALSE) :
              out0 \in -1..n, outsamp \in -1..(n + 1) }
        \cup { NewCall(mem, 0, FALSE, FALSE, n, b, out0, INT32_MAX, over) :
              out0 \in {0, n - 1}, over \in BOOLEAN }
        \cup { NewCall(mem, w, FALSE, FALSE, insamp, b, 0, insamp, FALSE) :
              w \in BeyondWords, insamp \in {n, n + 1} }
        \cup { NewCall(mem, w, FALSE, FALSE, n, inbyte, 0, n, FALSE) :
              w \in BeyondWords, inbyte \in {b - SIZEOF_INT32, 0, -4} }
        \cup { NewCall(mem, 0, nullin, nullout, insamp, b, 0, outsamp, FALSE) :
              nullin \in BOOLEAN, nullout \in BOOLEAN, insamp \in {n, 0, -1},
              outsamp \in {n, 0} }

InitDec ==
    /\ \E bs \in GoodStreams \cup BadStreams : \E c \in CallsOn(bs) : dcall = <<c>>
    /\ unbuf = <<>>
    /\ ecall = <<>>
    /\ conv = <<>>

NextDec == DecEntry \/ DecSkip \/ DecLoop \/ DecCopy \/ DecLast

SpecDec == InitDec /\ [][NextDec]_vars

\* the call of e_decomp on the window w of the well-formed stream bs
CallOn(bs, w) ==
    NewCall(Flatten(bs), 0, FALSE, FALSE, TotalSamp(bs),
            SIZEOF_INT32 * Len(Flatten(bs)), w[1], w[2], FALSE)

\* two calls on disjoint buffers, in progress at once
InitPar ==
    /\ \E bs1 \in SeqsUpTo(GoodBlocks, 1, MaxBlocks - 1),
          bs2 \in SeqsUpTo(GoodBlocks, 1, MaxBlocks - 1) :
          \E w \in {<<0, TotalSamp(bs1)>>, <<0, 1>>} :
              dcall = << CallOn(bs1, w), CallOn(bs2, <<0, TotalSamp(bs2)>>) >>
    /\ unbuf = <<>>
    /\ ecall = <<>>
    /\ conv = <<>>

SpecPar == InitPar /\ [][NextDec]_vars

(***************************************************************************)
(* Properties of e_decomp                                                  *)
(***************************************************************************)
\* the well-formed streams with the samples they hold
GoodTable == {<<Flatten(bs), TotalSamp(bs)>> : bs \in GoodStreams}

WellFormed(c) ==
    /\ ~c.nullin /\ ~c.nullout
    /\ <<c.mem, c.insamp>> \in GoodTable
    /\ c.inbyte = SIZEOF_INT32 * Len(c.mem)

ValidWindow(c) == 0 <= c.out0 /\ 1 <= c.outsamp /\ c.outsamp <= c.insamp - c.out0

\* the call with the arguments of c, run alone from a fresh static array
Alone(c) ==
    EDecompRun(NewCall(c.mem, c.beyond, c.nullin, c.nullout, c.insamp, c.inbyte,
                       c.out0, c.outsamp, c.over), <<>>, 0).c

\* the decode of the whole stream of c
Whole(c) == EDecomp(c.mem, c.beyond, c.insamp, c.inbyte, 0, c.insamp, <<>>, 0)

Untouched(c) == c.top = -1 /\ \A i \in DOMAIN c.out : c.out[i] = <<>>

\* C3: on a well-formed stream every valid window decodes with SUCCESS to
\* the samples [out0, out0 + outsamp) of the decode of the whole stream
C3_SeekIsSlice ==
    \A id \in DOMAIN dcall :
        LET c == dcall[id]
        IN  (c.pc = "done" /\ WellFormed(c) /\ ValidWindow(c)) =>
                /\ c.ret = EC_SUCCESS
                /\ Whole(c).ret = EC_SUCCESS
                /\ c.out = [i \in 1..c.outsamp |-> Whole(c).out[c.out0 + i]]

\* a window that starts inside a block and ends in a later one was decoded
C3_Witness ==
    \E id \in DOMAIN dcall :
        LET c == dcall[id]
        IN  /\ c.pc = "done" /\ WellFormed(c) /\ ValidWindow(c)
            /\ c.ret = EC_SUCCESS
            /\ Len(c.blocks) >= 2 /\ c.blocks[1] > 0
            /\ c.outsamp < c.insamp - c.out0
            /\ \E i \in DOMAIN c.out : c.out[i] # <<0>>

ArgBad(c) ==
    \/ c.nullin \/ c.nullout \/ c.insamp <= 0 \/ c.inbyte <= 0 \/ c.out0 < 0
    \/ c.out0 >= c.insamp \/ c.outsamp > c.insamp - c.out0

\* C5: e_decomp returns ARG_ERROR, having read no input and
\* written no output, whenever a buffer is null, insamp <= 0, inbyte <= 0,
\* outsamp <= 0, out0 < 0, out0 >= insamp or out0 + outsamp > insamp
C5_ArgError ==
    \A id \in DOMAIN dcall :
        LET c == dcall[id]
        IN  (c.pc = "done" /\ (ArgBad(c) \/ c.outsamp <= 0)) =>
                (c.ret = EC_ARG_ERROR /\ Untouched(c))

\* C7: two calls that run interleaved return the codes and the outputs they
\* return when each runs alone
C7_InterleavedAsAlone ==
    \A id \in DOMAIN dcall :
        LET c == dcall[id]
        IN  c.pc = "done" => (c.ret = Alone(c).ret /\ c.out = Alone(c).out)

\* C8: no input word at or beyond in + inbyte is read, no block decode
\* reads beyond the words of its block, and a call whose insamp overstates
\* the samples of a well-formed stream returns LENGTH_ERROR
C8_NoReadBeyondInput ==
    \A id \in DOMAIN dcall :
        LET c == dcall[id]
        IN  /\ c.top >= 0 => c.top < LastIn(c)
            /\ c.blocks # <<>> =>
                   LET p == c.blocks[Len(c.blocks)]
                   IN  c.bread < p + (Hi(RdWord(c.mem, c.beyond, p)) \div SIZEOF_INT32)
            /\ (c.pc = "done" /\ <<c.mem, c.insamp - 1>> \in GoodTable
                  /\ c.outsamp = c.insamp /\ c.out0 = 0
                  /\ c.inbyte = SIZEOF_INT32 * Len(c.mem)) =>
                   c.ret = EC_LENGTH_ERROR

\* C9: the step in which a block decode fails with code c returns c, having
\* decoded no other block and changed no output; the step in which a header
\* validation fails returns its code, the samples already copied unchanged;
\* and a call that returned does nothing more
C9_ErrorPropagation ==
    [][\A id \in DOMAIN dcall :
         LET c == dcall[id]
             d == dcall'[id]
         IN  /\ (c.berr = 0 /\ d.berr # 0) =>
                    /\ d.pc = "done" /\ d.ret = d.berr
                    /\ d.blocks = Append(c.blocks, c.p)
                    /\ d.out = c.out
             /\ (c.herr = 0 /\ d.herr # 0) =>
                    /\ d.pc = "done" /\ d.ret = d.herr
                    /\ d.blocks = c.blocks
             /\ \A i \in DOMAIN c.out : c.out[i] # <<>> => d.out[i] = c.out[i]
             /\ c.pc = "done" => d = c]_vars

\* a block decode failed after samples of earlier blocks had been copied
C9_Witness ==
    \E id \in DOMAIN dcall :
        LET c == dcall[id]
        IN  /\ c.pc = "done" /\ c.berr # 0 /\ c.ret = c.berr
            /\ Len(c.blocks) >= 2
            /\ \E i \in DOMAIN c.out : c.out[i] # <<>>

(***************************************************************************)
(* A client that compresses a signal with e_comp and then decompresses the *)
(* stream with e_decomp.  ecall is the call of e_comp: its arguments, pc   *)
(* ("call", then "done", or "fault" when the process ended in it), and     *)
(* what it returned and stored.                                            *)
(***************************************************************************)
MaxLen == 3

NewECall(in, nullin, nullout, nullob, insamp, tag, block_flag) ==
    [in |-> in, nullin |-> nullin, nullout |-> nullout, nullob |-> nullob,
     insamp |-> insamp, tag |-> tag, block_flag |-> block_flag,
     pc |-> "call", ret |-> -1, out |-> <<>>, pad |-> 0, ob |-> <<>>,
     blks |-> <<>>]

Tag(c, n) == [c |-> c, n |-> n]

\* e0 .. e8 and E0 .. E9
ValidTags == {Tag("e", n) : n \in 0..8} \cup {Tag("E", n) : n \in 0..9}

\* tags of a first character e, E or s and a second from '/' to ':'
AllTags == {Tag(c, n) : c \in {"e", "E", "s"}, n \in -1..10}

Flags == {EC_FULL_END, EC_SHORT_END}

\* samples of 7, 9 and 28 bits, the least of 28 signed bits, and 2^28
SampleVals == {0, 1, -70, 134217727, -134217728, 268435456}

ShortSigs == SeqsUpTo(SampleVals, 1, MaxLen)

Ones(n) == [i \in 1..n |-> 1]
Ramp(n) == [i \in 1..n |-> 3 * i]
Step(n) == [i \in 1..n |-> IF i = 1 THEN 0 ELSE IF i = 2 THEN 100000000 ELSE 200000000]

\* signals of more than one block: two samples more than a block of E1 has
\* words for, a sample of 2^28 among small ones, a sample of 2^28 and a
\* sample 3 * 10^8 below its neighbour right behind the samples dmaxbit
\* covers, a sample of 2^28 before a block of small ones, and one sample
\* more than a block may hold; and the signal 1, 2, ..., 7 for e1
LongCalls ==
    LET k == BufInts(BufBytes(Tag("E", 1)))
        big == (EC_MAX_BUFFER \div SIZEOF_INT32) + 1
    IN  { <<Ramp(k + 2), Tag("E", 1)>>,
          <<Ones(k + 2) \o <<-134217728>>, Tag("E", 1)>>,
          <<Ones(k + 2) \o <<268435455>>, Tag("E", 1)>>,
          <<Ramp(k) \o <<268435456>> \o Ramp(3), Tag("E", 1)>>,
          <<Ones(k) \o <<268435456>>, Tag("E", 1)>>,
          <<<<268435456>> \o Ones(k), Tag("E", 1)>>,
          <<Step(k) \o <<-100000000, 1>>, Tag("E", 1)>>,
          <<Zeros(big), Tag("e", 2)>>,
          <<Zeros(big), Tag("e", 3)>>,
          <<<<1, 2, 3, 4, 5, 6, 7>>, Tag("e", 1)>> }

ECalls ==
    { NewECall(x, FALSE, FALSE, FALSE, Len(x), tag, f) :
          x \in ShortSigs, tag \in ValidTags, f \in Flags }
    \cup { NewECall(l[1], FALSE, FALSE, FALSE, Len(l[1]), l[2], f) :
          l \in LongCalls, f \in Flags }
    \cup { NewECall(IF nullin THEN <<>> ELSE <<1, -70>>, nullin, nullout, nullob,
                    insamp, tag, EC_SHORT_END) :
          nullin \in BOOLEAN, nullout \in BOOLEAN, nullob \in BOOLEAN,
          insamp \in {2, 0, -1}, tag \in AllTags }

Init ==
    /\ ecall \in ECalls
    /\ dcall = <<>>
    /\ unbuf = <<>>
    /\ conv = <<>>

\* the record of the call e once e_comp did r
ECallDone(e, r) ==
    [e EXCEPT !.pc = IF r.ret = -1 THEN "fault" ELSE "done",
              !.ret = r.ret, !.out = r.out, !.pad = r.pad, !.ob = r.ob,
              !.blks = r.blks]

\* the call of e_comp, whole
EncCall ==
    /\ ecall.pc = "call"
    /\ ecall' = ECallDone(ecall, EComp(ecall.in, ecall.nullin, ecall.nullout,
                                       ecall.nullob, ecall.insamp, ecall.tag,
                                       ecall.block_flag))
    /\ UNCHANGED <<dcall, unbuf, conv>>

\* the windows the client asks for: the whole signal, its first sample, its
\* last sample
ClientWindows(n) ==
    IF n = 0 THEN {<<0, 0>>} ELSE {<<0, n>>, <<0, 1>>, <<n - 1, 1>>}

\* the client passes the stream, the samples it compressed and *outbytes to
\* e_decomp; the words behind those of ecall.out are 0, the padding first
DecStart ==
    /\ ecall.pc = "done" /\ ecall.ret = EC_SUCCESS
    /\ dcall = <<>>
    /\ \E w \in ClientWindows(ecall.insamp) :
           dcall' = << NewCall(ecall.out, 0, FALSE, FALSE, ecall.insamp,
                               ecall.ob[1], w[1], w[2], FALSE) >>
    /\ UNCHANGED <<unbuf, ecall, conv>>

Next == EncCall \/ DecStart \/ DecEntry \/ DecSkip \/ DecLoop \/ DecCopy \/ DecLast

Spec == Init /\ [][Next]_vars

(***************************************************************************)
(* convdata.c: the table of the fixed-width types and the planner          *)
(*                                                                         *)
(* A tag is the pair of its two characters.  The lookup compares the long  *)
(* of the union typeu with the names of the table, so that its outcome     *)
(* depends on the build: the order of the bytes of a long, their number,   *)
(* and, when a long has 8 bytes, the 4 bytes of typeu that were never set. *)
(* A value in memory is the sequence of its bytes from the lowest address. *)
(***************************************************************************)
NDATATYPE == 11
A2 == 1630666752
F4 == 1714683904
F8 == 1714946048
G2 == 1731330048
I2 == 1764884480
I4 == 1765015552
S2 == 1932656640
S3 == 1932722176
S4 == 1932787712
T4 == 1949564928
T8 == 1949827072
CONV_SUCCESS == 0
CONV_UNKNOWN == -1

\* the null function pointer of the table
NOFUNC == "0"

TypeInfo(name, len, have_s4, have_t8, from_s4, to_s4, from_t8, to_t8) ==
    [name |-> name, len |-> len, have_s4 |-> have_s4, have_t8 |-> have_t8,
     from_s4_func |-> from_s4, to_s4_func |-> to_s4,
     from_t8_func |-> from_t8, to_t8_func |-> to_t8]

datatype ==
    << TypeInfo(A2, 2, 0, 1, NOFUNC, NOFUNC, "t8toa2", "a2tot8"),
       TypeInfo(F4, 4, 0, 1, NOFUNC, NOFUNC, "t8tof4", "f4tot8"),
       TypeInfo(F8, 8, 0, 1, NOFUNC, NOFUNC, "t8tof8", "f8tot8"),
       TypeInfo(G2, 2, 1, 0, "s4tog2", "g2tos4", NOFUNC, NOFUNC),
       TypeInfo(I2, 2, 1, 0, "s4toi2", "i2tos4", NOFUNC, NOFUNC),
       TypeInfo(I4, 4, 1, 0, "s4toi4", "i4tos4", NOFUNC, NOFUNC),
       TypeInfo(S2, 2, 1, 1, "s4tos2", "s2tos4", "t8tos2", "s2tot8"),
       TypeInfo(S3, 3, 1, 0, "s4tos3", "s3tos4", NOFUNC, NOFUNC),
       TypeInfo(S4, 4, 0, 1, NOFUNC, NOFUNC, "t8tos4", "s4tot8"),
       TypeInfo(T4, 4, 1, 1, "s4tot4", "t4tos4", "t8tot4", "t4tot8"),
       TypeInfo(T8, 8, 1, 0, "s4tot8", "t8tos4", NOFUNC, NOFUNC) >>

\* the bytes of the 32-bit value v, the most significant first
BytesBE(v) == << v \div Pow2(24), (v \div Pow2(16)) % 256, (v \div 256) % 256, v % 256 >>

Reverse(s) == [i \in 1..Len(s) |-> s[Len(s) + 1 - i]]

\* the long of value v (0 <= v < 2^31) in the memory of the build b
LongBytes(b, v) ==
    LET pad == [i \in 1..(b.longbytes - 4) |-> 0]
    IN  IF b.bigendian THEN pad \o BytesBE(v) ELSE Reverse(BytesBE(v)) \o pad

\* typeu after c[0], c[1] were set from the tag and c[2], c[3] to 0; the
\* bytes of the long behind c[3] hold what the stack held (garb)
Typeu(b, tag, garb) ==
    <<tag[1], tag[2], 0, 0>> \o SubSeq(garb, 1, b.longbytes - 4)

\* for (i = 0; i < NDATATYPE; i++) if (datatype[i].name == typeu.l) break;
\* the index found (from 1), or NDATATYPE + 1 (i == NDATATYPE)
Lookup(b, tag, garb) ==
    LET hit == {i \in 1..NDATATYPE :
                    LongBytes(b, datatype[i].name) = Typeu(b, tag, garb)}
    IN  IF hit = {} THEN NDATATYPE + 1
        ELSE CHOOSE i \in hit : \A j \in hit : i <= j

PlanResult(ret, inlen, outlen, func) ==
    [ret |-> ret, inlen |-> inlen, outlen |-> outlen, func |-> func,
     nfunc |-> Len(func)]

\* the steps towards t8 and from t8 (the last part of convfunc)
ToT8(in_info) ==
    IF in_info.have_t8 # 0 THEN <<in_info.to_t8_func>>
    ELSE <<in_info.to_s4_func, "s4tot8">>

FromT8(out_info) ==
    IF out_info.have_t8 # 0 THEN <<out_info.from_t8_func>>
    ELSE <<"t8tos4", out_info.from_s4_func>>

\* convfunc once both rows are found
PlanRows(in_info, out_info) ==
    IF in_info = out_info
    THEN PlanResult(CONV_SUCCESS, out_info.len, out_info.len, <<>>)
    ELSE PlanResult(CONV_SUCCESS, in_info.len, out_info.len,
           IF in_info.name = I2 /\ out_info.name = S2 THEN <<"i2tos2">>
           ELSE IF in_info.name = S2 /\ out_info.name = I2 THEN <<"s2toi2">>
           ELSE IF in_info.name = F4 /\ out_info.name = T4 THEN <<"f4tot4">>
           ELSE IF in_info.name = T4 /\ out_info.name = F4 THEN <<"t4tof4">>
           ELSE IF in_info.name = S4 THEN <<out_info.from_s4_func>>
           ELSE IF out_info.name = S4 THEN <<in_info.to_s4_func>>
           ELSE IF out_info.have_s4 # 0 /\ in_info.have_s4 # 0
                THEN <<in_info.to_s4_func, out_info.from_s4_func>>
           ELSE IF in_info.name = T8 THEN FromT8(out_info)
           ELSE IF out_info.name = T8 THEN ToT8(in_info)
           ELSE ToT8(in_info) \o FromT8(out_info))

\* convfunc(intype, outtype, inlen, outlen, func, nfunc) on the build b
convfunc(b, garb, intype, outtype) ==
    IF Lookup(b, intype, garb) > NDATATYPE \/ Lookup(b, outtype, garb) > NDATATYPE
    THEN PlanResult(CONV_UNKNOWN, 0, 0, <<>>)
    ELSE PlanRows(datatype[Lookup(b, intype, garb)],
                  datatype[Lookup(b, outtype, garb)])

\* the routines convdata calls, in order, once both rows are found
DataRows(in_info, out_info) ==
    IF in_info = out_info THEN <<>>
    ELSE IF in_info.name = I2 /\ out_info.name = S2 THEN <<"i2tos2">>
    ELSE IF in_info.name = S2 /\ out_info.name = I2 THEN <<"s2toi2">>
    ELSE IF in_info.name = F4 /\ out_info.name = T4 THEN <<"f4tot4x">>
    ELSE IF in_info.name = T4 /\ out_info.name = F4 THEN <<"t4tof4x">>
    ELSE IF in_info.name = S4 THEN <<out_info.from_s4_func>>
    ELSE IF out_info.name = S4 THEN <<in_info.to_s4_func>>
    ELSE IF out_info.have_s4 # 0 /\ in_info.have_s4 # 0
         THEN <<in_info.to_s4_func, out_info.from_s4_func>>
    ELSE IF in_info.name = T8 THEN FromT8(out_info)
    ELSE IF out_info.name = T8 THEN ToT8(in_info)
    ELSE ToT8(in_info) \o FromT8(out_info)

\* the calls made up to the first through a null pointer, which ends the
\* process (fault)
RECURSIVE CallsMade(_)
CallsMade(fs) ==
    IF fs = <<>> THEN [calls |-> <<>>, fault |-> FALSE]
    ELSE IF Head(fs) = NOFUNC THEN [calls |-> <<NOFUNC>>, fault |-> TRUE]
    ELSE LET r == CallsMade(Tail(fs))
         IN  [calls |-> <<Head(fs)>> \o r.calls, fault |-> r.fault]

\* the routines a routine of the table is made of, in the order it calls them
Parts(f) ==
    CASE f = "a2tot8" -> <<"a2tot4", "t4tot8">>
      [] f = "t8toa2" -> <<"t8tot4", "t4toa2">>
      [] f = "f4tot8" -> <<"f4tot4", "t4tot8">>
      [] f = "f8tot4" -> <<"f8tot8", "t8tot4">>
      [] f = "t4tof8" -> <<"t4tot8", "t8tof8">>
      [] f = "t8tof4" -> <<"t8tot4", "t4tof4">>
      [] f = "s2toi2" -> <<"i2tos2">>
      [] f = "s4toi4" -> <<"i4tos4">>
      [] OTHER -> <<f>>

\* the indices of the samples the per-sample code of routine f reads and
\* writes when called with n >= 0: every routine loops while n > 0, but
\* a2tot4 loops while n > 1 and then always converts the sample before the
\* last one it did, which for n = 0 is the sample before buf
Ran(f, n) == IF f = "a2tot4" /\ n <= 1 THEN {n - 1} ELSE 0..(n - 1)

\* the samples the calls fs read and write
RanAll(fs, n) ==
    UNION {UNION {Ran(Parts(fs[i])[k], n) : k \in DOMAIN Parts(fs[i])} :
               i \in DOMAIN fs}

\* convdata(buf, n, intype, outtype) on the build b: the code returned (-2:
\* none, the process ended), the routines called and the samples they read
\* and wrote
convdata(b, garb, n, intype, outtype) ==
    IF Lookup(b, intype, garb) > NDATATYPE \/ Lookup(b, outtype, garb) > NDATATYPE
    THEN [ret |-> CONV_UNKNOWN, calls |-> <<>>, fault |-> FALSE, ran |-> {}]
    ELSE LET r == CallsMade(DataRows(datatype[Lookup(b, intype, garb)],
                                     datatype[Lookup(b, outtype, garb)]))
         IN  [ret |-> IF r.fault THEN -2 ELSE CONV_SUCCESS, calls |-> r.calls,
              fault |-> r.fault,
              ran |-> RanAll(SelectSeq(r.calls, LAMBDA f : f # NOFUNC), n)]

\* convlen(typ) on the build b
convlen(b, garb, typ) ==
    IF Lookup(b, typ, garb) > NDATATYPE THEN -1
    ELSE datatype[Lookup(b, typ, garb)].len

(***************************************************************************)
(* A client that plans a conversion with convfunc and then asks convdata   *)
(* for it, and at some time asks convlen for the widths of the two tags.   *)
(* conv holds the build, the tags, pc ("plan", "data", "done" or "fault")  *)
(* and what the calls did.                                                 *)
(***************************************************************************)
\* the builds: a long of 4 or 8 bytes, either byte order
Builds == {[bigendian |-> be, longbytes |-> lb] : be \in BOOLEAN, lb \in {4, 8}}

\* what the 4 bytes of typeu that are never set may hold
Garbage == {<<0, 0, 0, 0>>, <<97, 50, 0, 0>>}

Chars(s) ==
    CASE s = "a2" -> <<97, 50>>  [] s = "f4" -> <<102, 52>> [] s = "f8" -> <<102, 56>>
      [] s = "g2" -> <<103, 50>> [] s = "i2" -> <<105, 50>> [] s = "i4" -> <<105, 52>>
      [] s = "s2" -> <<115, 50>> [] s = "s3" -> <<115, 51>> [] s = "s4" -> <<115, 52>>
      [] s = "t4" -> <<116, 52>> [] s = "t8" -> <<116, 56>> [] s = "b4" -> <<98, 52>>
      [] s = "e1" -> <<101, 49>> [] s = "S4" -> <<83, 52>>

KnownTags ==
    {Chars(s) : s \in {"a2", "f4", "f8", "g2", "i2", "i4", "s2", "s3", "s4", "t4", "t8"}}

UnknownTags == {Chars(s) : s \in {"b4", "e1", "S4"}}

InitConv ==
    /\ \E b \in Builds, g \in Garbage, it \in KnownTags \cup UnknownTags,
          ot \in KnownTags \cup UnknownTags, n \in {0, 1, 2} :
          conv = [build |-> b, garb |-> g, intype |-> it, outtype |-> ot, n |-> n,
                  pc |-> "plan", plan |-> <<>>, data |-> <<>>, len |-> <<>>]
    /\ dcall = <<>>
    /\ unbuf = <<>>
    /\ ecall = <<>>

ConvPlan ==
    /\ conv.pc = "plan"
    /\ conv' = [conv EXCEPT !.plan = convfunc(conv.build, conv.garb, conv.intype,
                                              conv.outtype),
                            !.pc = "data"]
    /\ UNCHANGED <<dcall, unbuf, ecall>>

ConvDone(c, r) == [c EXCEPT !.data = r, !.pc = IF r.fault THEN "fault" ELSE "done"]

ConvData ==
    /\ conv.pc = "data"
    /\ conv' = ConvDone(conv, convdata(conv.build, conv.garb, conv.n, conv.intype,
                                       conv.outtype))
    /\ UNCHANGED <<dcall, unbuf, ecall>>

ConvLen ==
    /\ conv.len = <<>>
    /\ conv' = [conv EXCEPT !.len = <<convlen(conv.build, conv.garb, conv.intype),
                                      convlen(conv.build, conv.garb, conv.outtype)>>]
    /\ UNCHANGED <<dcall, unbuf, ecall>>

NextConv == ConvPlan \/ ConvData \/ ConvLen

SpecConv == InitConv /\ [][NextConv]_vars

\* C6: for every ordered pair of the eleven recognised tags convfunc returns
\* SUCCESS with a chain of present routines, convdata calls present routines
\* only, and when one side is s4 the one step is the from_s4 or to_s4 routine
\* the other side has
C6_PlanPresent ==
    (conv.intype \in KnownTags /\ conv.outtype \in KnownTags) =>
        /\ conv.pc # "plan" =>
               /\ conv.plan.ret = CONV_SUCCESS
               /\ \A k \in DOMAIN conv.plan.func : conv.plan.func[k] # NOFUNC
               /\ (conv.intype # conv.outtype
                     /\ Chars("s4") \in {conv.intype, conv.outtype}) =>
                      conv.plan.nfunc = 1
        /\ conv.pc \notin {"plan", "data"} =>
               /\ conv.pc = "done"
               /\ \A k \in DOMAIN conv.data.calls : conv.data.calls[k] # NOFUNC

\* C11: with n = 0, convdata returns SUCCESS for every ordered pair of the
\* eleven recognised tags and does nothing: no routine it calls reads or
\* writes a sample of the buffer, nor one before or after it
C11_NoOpOnZero ==
    (conv.intype \in KnownTags /\ conv.outtype \in KnownTags /\ conv.n = 0
       /\ conv.pc \notin {"plan", "data"}) =>
        /\ conv.pc = "done"
        /\ conv.data.ret = CONV_SUCCESS
        /\ conv.data.ran = {}

\* the byte width the tag names: its digit
Width(tag) == tag[2] - 48

\* C12: with a tag that is not one of the eleven recognised ones, as input
\* or as output, convdata returns UNKNOWN and calls no routine on the
\* buffer, convfunc returns UNKNOWN with inlen = outlen = 0 and nfunc = 0,
\* and convlen returns -1 for such a tag; for a recognised tag convlen
\* returns the byte width of its row, 2, 3, 4 or 8
C12_UnknownTag ==
    /\ (conv.intype \in UnknownTags \/ conv.outtype \in UnknownTags) =>
           /\ conv.pc # "plan" =>
                  /\ conv.plan.ret = CONV_UNKNOWN
                  /\ conv.plan.inlen = 0 /\ conv.plan.outlen = 0
                  /\ conv.plan.nfunc = 0
           /\ conv.pc \notin {"plan", "data"} =>
                  /\ conv.pc = "done"
                  /\ conv.data.ret = CONV_UNKNOWN
                  /\ conv.data.calls = <<>> /\ conv.data.ran = {}
    /\ conv.len # <<>> =>
           /\ conv.intype \in UnknownTags => conv.len[1] = -1
           /\ conv.outtype \in UnknownTags => conv.len[2] = -1
           /\ conv.intype \in KnownTags =>
                  (conv.len[1] = Width(conv.intype) /\ conv.len[1] \in {2, 3, 4, 8})
           /\ conv.outtype \in KnownTags =>
                  (conv.len[2] = Width(conv.outtype) /\ conv.len[2] \in {2, 3, 4, 8})

(***************************************************************************)
(* The in-place routines on bytes.  The memory m is a function from the    *)
(* byte offsets relative to buf, those before buf included, to bytes.      *)
(***************************************************************************)
\* the bytes of the short or long at offset a, most significant first
RdNat(b, m, a, w) ==
    [i \in 1..w |-> IF b.bigendian THEN m[a + i - 1] ELSE m[a + w - i]]

\* the store of the bytes v, most significant first, at offset a
WrNat(b, m, a, v) ==
    [x \in DOMAIN m |->
        IF x < a \/ x >= a + Len(v) THEN m[x]
        ELSE IF b.bigendian THEN v[x - a + 1] ELSE v[Len(v) - (x - a)]]

\* d[i] = s[j] on bytes
Mv(m, d, s) == [m EXCEPT ![d] = m[s]]

\* the low 31 bits of the long of bytes v
Low31(v) ==
    (v[Len(v) - 3] % 128) * 16777216 + v[Len(v) - 2] * 65536
        + v[Len(v) - 1] * 256 + v[Len(v)]

\* temp = (l + bias) & 0x7fffffff for the long l of bytes v: a sum past the
\* largest long of 4 bytes is undefined, and is here what the add of the
\* machine leaves in the low 31 bits
Temp(v, bias) ==
    IF Low31(v) > 2147483647 - bias THEN Low31(v) - (2147483647 - bias) - 1
    ELSE Low31(v) + bias

\* the short that s4tog2 stores for the long of bytes v, the tiers tested
\* from the lowest gain up, or -1 when it comes to the last else
S4ToG2(v) ==
    IF Temp(v, 8191) < 16384 THEN Temp(v, 8191)
    ELSE IF Temp(v, 32765) < 65536 THEN (Temp(v, 32765) \div 4) + 16384
    ELSE IF Temp(v, 131063) < 262144 THEN (Temp(v, 131063) \div 16) + 32768
    ELSE IF Temp(v, 1048511) < 2097152 THEN (Temp(v, 1048511) \div 128) + 49152
    ELSE -1

\* what routine f called with n does for sample k, statement by statement.
\* i2tos4 shifts l[k - n], as l is never moved up by n; the shift of a signed
\* long keeps the sign; s2tos4 stores the short converted to long
\* a turn of the loop of f4tot4x, on the float at u = buf + 4 * k
F4ToT4x(m, k) ==
    IF m[4 * k + 1] % 128 < 2 /\ m[4 * k] < 128
    THEN [m EXCEPT ![4 * k] = 0, ![4 * k + 1] = 0, ![4 * k + 2] = 0,
                   ![4 * k + 3] = 0]
    ELSE [m EXCEPT ![4 * k] = (m[4 * k + 1] - 1) % 256, ![4 * k + 1] = m[4 * k],
                   ![4 * k + 2] = m[4 * k + 3], ![4 * k + 3] = m[4 * k + 2]]

\* a turn of the loop of t8tof8, on the double at u = buf + 8 * k:
\* exp_test.s is the short of the build whose bytes are u[0] and u[1], and
\* after the add u[0] gets its second byte and u[1] its first
T8ToF8(b, m, k) ==
    IF (RdNat(b, m, 8 * k, 2)[1] % 128) * 256
           + (RdNat(b, m, 8 * k, 2)[2] \div 16) * 16 > 32736
    THEN [a \in DOMAIN m |->
             IF a < 8 * k \/ a > 8 * k + 7 THEN m[a]
             ELSE IF a = 8 * k + 1 THEN 127 ELSE 255]
    ELSE [WrNat(b, m, 8 * k,
                <<(RdNat(b, m, 8 * k, 2)[2] + 32) % 256,
                  (RdNat(b, m, 8 * k, 2)[1]
                       + (RdNat(b, m, 8 * k, 2)[2] + 32) \div 256) % 256>>)
          EXCEPT ![8 * k + 2] = m[8 * k + 3], ![8 * k + 3] = m[8 * k + 2],
                 ![8 * k + 4] = m[8 * k + 5], ![8 * k + 5] = m[8 * k + 4],
                 ![8 * k + 6] = m[8 * k + 7], ![8 * k + 7] = m[8 * k + 6]]

One(b, f, m, k, n) ==
    CASE f = "i2tos2" -> [m EXCEPT ![2 * k] = m[2 * k + 1], ![2 * k + 1] = m[2 * k]]
      [] f = "i4tos4" ->
           [m EXCEPT ![4 * k] = m[4 * k + 3], ![4 * k + 3] = m[4 * k],
                     ![4 * k + 1] = m[4 * k + 2], ![4 * k + 2] = m[4 * k + 1]]
      [] f = "i2tos4" ->
           LET m2 == Mv(Mv(m, 4 * k + 1, 2 * k), 4 * k, 2 * k + 1)
               v == RdNat(b, m2, (k - n) * b.longbytes, b.longbytes)
               sign == IF v[1] >= 128 THEN 255 ELSE 0
           IN  WrNat(b, m2, (k - n) * b.longbytes,
                     <<sign, sign>> \o SubSeq(v, 1, b.longbytes - 2))
      [] f = "s4toi2" -> Mv(Mv(m, 2 * k, 4 * k + 1), 2 * k + 1, 4 * k)
      [] f = "s2tos4" ->
           LET v == RdNat(b, m, 2 * k, 2)
           IN  WrNat(b, m, b.longbytes * k,
                     [i \in 1..(b.longbytes - 2) |->
                         IF v[1] >= 128 THEN 255 ELSE 0] \o v)
      [] f = "s4tos2" -> Mv(Mv(m, 2 * k, 4 * k + 2), 2 * k + 1, 4 * k + 3)
      [] f = "s3tos4" ->
           LET m3 == Mv(Mv(Mv(m, 4 * k + 3, 3 * k + 2), 4 * k + 2, 3 * k + 1),
                        4 * k + 1, 3 * k)
           IN  [m3 EXCEPT ![4 * k] = IF m3[4 * k + 1] >= 128 THEN 255 ELSE 0]
      [] f = "s4tos3" ->
           Mv(Mv(Mv(m, 3 * k, 4 * k + 1), 3 * k + 1, 4 * k + 2), 3 * k + 2, 4 * k + 3)
      [] f = "s4tog2" ->
           \* the last else of the first sample of a group of 5 stores to s[1]
           IF S4ToG2(RdNat(b, m, b.longbytes * k, b.longbytes)) = -1
           THEN WrNat(b, m, IF k < 5 * (n \div 5) /\ k % 5 = 0 THEN 2 * k + 2
                            ELSE 2 * k, <<255, 255>>)
           ELSE WrNat(b, m, 2 * k,
                      <<S4ToG2(RdNat(b, m, b.longbytes * k, b.longbytes)) \div 256,
                        S4ToG2(RdNat(b, m, b.longbytes * k, b.longbytes)) % 256>>)
      [] f = "f4tot4x" -> F4ToT4x(m, k)
      [] f = "t8tof8" -> T8ToF8(b, m, k)

\* the loops of f: the samples the unrolled loop takes at a time, and
\* whether f steps down from the last sample
Loop(f) ==
    [unroll |-> CASE f \in {"i2tos2", "i2tos4", "s4toi2", "s2tos4"} -> 10
                  [] f \in {"i4tos4", "s4tos2", "s4tog2"} -> 5
                  [] f \in {"s3tos4", "s4tos3"} -> 4
                  [] f \in {"f4tot4x", "t8tof8"} -> 1,
     down |-> f \in {"i2tos4", "s2tos4", "s3tos4"}]

\* the samples from k to last (up or down), each done in its turn
RECURSIVE Sweep(_, _, _, _, _, _)
Sweep(b, f, m, k, last, n) ==
    IF (Loop(f).down /\ k < last) \/ (~Loop(f).down /\ k > last) THEN m
    ELSE Sweep(b, f, One(b, f, m, k, n), IF Loop(f).down THEN k - 1 ELSE k + 1,
               last, n)

\* f(buf, n): the unrolled loop on whole groups, then the loop on the rest
Routine(b, f, m, n) ==
    LET g == Loop(Parts(f)[1]).unroll * (n \div Loop(Parts(f)[1]).unroll)
    IN  IF Loop(Parts(f)[1]).down
        THEN Sweep(b, Parts(f)[1], Sweep(b, Parts(f)[1], m, n - 1, n - g, n),
                   n - g - 1, 0, n)
        ELSE Sweep(b, Parts(f)[1], Sweep(b, Parts(f)[1], m, 0, g - 1, n),
                   g, n - 1, n)

(***************************************************************************)
(* A client that converts a buffer of n samples in place and back: conv    *)
(* holds the build, the routines to call (chain), the next one (at), the   *)
(* memory before the first call (orig) and now (mem).                      *)
(***************************************************************************)
MaxN == 11

\* the turns of the while loop of b4tot4 on one sample that are followed
MaxSpin == 26

Chains ==
    {<<"i2tos4", "s4toi2">>, <<"i2tos2", "s2toi2">>, <<"i4tos4", "s4toi4">>,
     <<"s2tos4", "s4tos2">>, <<"s3tos4", "s4tos3">>, <<"b4tot4">>, <<"s4tog2">>,
     <<"f4tot4x">>, <<"t8tof8">>}

\* the bytes of a sample the routine takes
InWidth(f) ==
    CASE f \in {"i2tos4", "i2tos2", "s2tos4"} -> 2
      [] f = "s3tos4" -> 3
      [] f \in {"i4tos4", "b4tot4", "s4tog2", "f4tot4x"} -> 4
      [] f = "t8tof8" -> 8

\* the input bytes: byte a of the samples is (mul * a + cyc[a % 4]) % 256
Pats ==
    {[mul |-> 37, cyc |-> <<18, 18, 18, 18>>], [mul |-> 91, cyc |-> <<200, 200, 200, 200>>],
     [mul |-> 128, cyc |-> <<127, 127, 127, 127>>], [mul |-> 0, cyc |-> <<255, 255, 255, 255>>],
     [mul |-> 0, cyc |-> <<128, 128, 128, 128>>], [mul |-> 0, cyc |-> <<0, 0, 0, 0>>],
     [mul |-> 0, cyc |-> <<65, 0, 0, 0>>], [mul |-> 0, cyc |-> <<0, 0, 0, 65>>],
     [mul |-> 0, cyc |-> <<194, 118, 160, 0>>], [mul |-> 0, cyc |-> <<0, 0, 0, 1>>],
     [mul |-> 0, cyc |-> <<5, 129, 7, 9>>], [mul |-> 0, cyc |-> <<127, 224, 0, 1>>]}

\* n samples of w bytes of pattern p in a memory of other bytes: the buffer
\* has w * n bytes, and a routine that steps by longs of 8 bytes reaches
\* 8 * n bytes up or down
Buffer(w, n, p) ==
    [a \in (-8 * MaxN)..(8 * MaxN - 1) |->
        IF 0 <= a /\ a < w * n THEN (p.mul * a + p.cyc[(a % 4) + 1]) % 256
        ELSE (13 * (a + 8 * MaxN) + 77) % 256]

InitPrim ==
    /\ \E b \in Builds, ch \in Chains, n \in 0..MaxN, p \in Pats :
          conv = [build |-> b, chain |-> ch, at |-> 1, n |-> n,
                  pc |-> IF ch = <<"b4tot4">> THEN "b4" ELSE "call",
                  k |-> 0, tmpexp |-> 0, tmpsign |-> FALSE, spins |-> 0,
                  mem |-> Buffer(InWidth(ch[1]), n, p),
                  orig |-> Buffer(InWidth(ch[1]), n, p)]
    /\ dcall = <<>>
    /\ unbuf = <<>>
    /\ ecall = <<>>

\* the client calls the next routine of its chain
PrimCall ==
    /\ conv.pc = "call"
    /\ conv' = [conv EXCEPT
                  !.mem = Routine(conv.build, conv.chain[conv.at], conv.mem, conv.n),
                  !.at = conv.at + 1,
                  !.pc = IF conv.at = Len(conv.chain) THEN "done" ELSE "call"]
    /\ UNCHANGED <<dcall, unbuf, ecall>>

\* b4tot4 at the head of its loop on n: the end, a long that is 0, which is
\* skipped, or the sign, the exponent and *u &= 0x00ffffff; *u <<= 8
B4Next ==
    /\ conv.pc = "b4"
    /\ LET lb == conv.build.longbytes
           v == RdNat(conv.build, conv.mem, lb * conv.k, lb)
       IN  conv' =
             IF conv.k >= conv.n THEN [conv EXCEPT !.pc = "done"]
             ELSE IF \A i \in 1..lb : v[i] = 0 THEN [conv EXCEPT !.k = conv.k + 1]
             ELSE [conv EXCEPT
                     !.tmpsign = v[lb - 3] >= 128,
                     !.tmpexp = (v[lb - 3] % 128) * 4 - 129,
                     !.mem = WrNat(conv.build, conv.mem, lb * conv.k,
                                   [i \in 1..(lb - 4) |-> 0]
                                       \o <<v[lb - 2], v[lb - 1], v[lb], 0>>),
                     !.pc = "b4shift"]
    /\ UNCHANGED <<dcall, unbuf, ecall>>

\* the 24 bits above the low byte of the long at u
Mantissa(c) ==
    LET v == RdNat(c.build, c.mem, c.build.longbytes * c.k, c.build.longbytes)
    IN  v[c.build.longbytes - 3] * 65536 + v[c.build.longbytes - 2] * 256
            + v[c.build.longbytes - 1]

\* the long with the 32 bits of bytes w (most significant first), and above
\* them, in a long of 8 bytes, the bits of a negative or of a positive number
LongOf(b, w, neg) == [i \in 1..(b.longbytes - 4) |-> IF neg THEN 255 ELSE 0] \o w

\* a turn of while (!(*u & 0x80000000)) { *u <<= 1; tmpexp -= 1; }
\* (tmpexp is the integer that the unsigned long holds modulo its width)
B4Shift ==
    /\ conv.pc = "b4shift"
    /\ Mantissa(conv) < 8388608
    /\ conv.spins < MaxSpin
    /\ conv' = [conv EXCEPT
                  !.mem = WrNat(conv.build, conv.mem, conv.build.longbytes * conv.k,
                                LongOf(conv.build,
                                       <<(2 * Mantissa(conv)) \div 65536,
                                         ((2 * Mantissa(conv)) \div 256) % 256,
                                         (2 * Mantissa(conv)) % 256, 0>>, FALSE)),
                  !.tmpexp = conv.tmpexp - 1,
                  !.spins = conv.spins + 1]
    /\ UNCHANGED <<dcall, unbuf, ecall>>

\* the end of the while loop: *u <<= 1; tmpexp -= 1; *u >>= 9;
\* *u |= (tmpexp << 23) | tmpsign; u++.  A long of 4 bytes drops the leading
\* 1 of the mantissa at the shift; a long of 8 bytes keeps it, and has the
\* bits of tmpexp above bit 31
B4Store ==
    /\ conv.pc = "b4shift"
    /\ Mantissa(conv) >= 8388608
    /\ LET e == (conv.tmpexp - 1) % 512
           lead == IF conv.build.longbytes = 8 /\ e % 2 = 0 THEN 1 ELSE 0
           frac == Mantissa(conv) - 8388608
           top == IF conv.tmpsign \/ e >= 256 THEN 128 ELSE 0
       IN  conv' = [conv EXCEPT
                      !.mem = WrNat(conv.build, conv.mem,
                                conv.build.longbytes * conv.k,
                                LongOf(conv.build,
                                       <<top + ((e % 256) + lead) \div 2,
                                         (((e % 256) + lead) % 2) * 128
                                             + frac \div 65536,
                                         (frac \div 256) % 256, frac % 256>>,
                                       conv.tmpexp - 1 < 0)),
                      !.k = conv.k + 1, !.spins = 0, !.pc = "b4"]
    /\ UNCHANGED <<dcall, unbuf, ecall>>

NextPrim == PrimCall \/ B4Next \/ B4Shift \/ B4Store

SpecPrim == InitPrim /\ [][NextPrim]_vars

\* the bytes a..(a + w - 1) of memory m
Bytes(m, a, w) == [i \in 1..w |-> m[a + i - 1]]

\* C13: for every buffer of i2 samples and every n >= 1, i2tos4 in place
\* gives for every sample, sample 0 included, the sign-extended 32-bit
\* big-endian value of the little-endian 16-bit input, and s4toi2 then gives
\* back the bytes of every sample
C13_I2S4 ==
    (conv.chain = <<"i2tos4", "s4toi2">> /\ conv.n >= 1) =>
        /\ conv.at = 2 =>
               \A k \in 0..(conv.n - 1) :
                   Bytes(conv.mem, 4 * k, 4) =
                       LET hi == conv.orig[2 * k + 1]
                       IN  <<IF hi >= 128 THEN 255 ELSE 0,
                             IF hi >= 128 THEN 255 ELSE 0, hi, conv.orig[2 * k]>>
        /\ conv.at = 3 =>
               Bytes(conv.mem, 0, 2 * conv.n) = Bytes(conv.orig, 0, 2 * conv.n)

\* C14: for every n, unrolled groups and remainder included, i2tos2 then
\* s2toi2 and i4tos4 then s4toi4 give back every byte pattern, s2tos4 then
\* s4tos2 gives back every 16-bit value, and s3tos4 then s4tos3 gives back
\* every 24-bit value, s3tos4 giving the sign-extended value
C14_Lossless ==
    (conv.chain \in {<<"i2tos2", "s2toi2">>, <<"i4tos4", "s4toi4">>,
                     <<"s2tos4", "s4tos2">>, <<"s3tos4", "s4tos3">>}) =>
        /\ conv.at = 3 =>
               Bytes(conv.mem, 0, InWidth(conv.chain[1]) * conv.n) =
                   Bytes(conv.orig, 0, InWidth(conv.chain[1]) * conv.n)
        /\ (conv.at = 2 /\ conv.chain[1] = "s3tos4") =>
               \A k \in 0..(conv.n - 1) :
                   Bytes(conv.mem, 4 * k, 4) =
                       <<IF conv.orig[3 * k] >= 128 THEN 255 ELSE 0>>
                           \o Bytes(conv.orig, 3 * k, 3)

\* C15: every routine ends for every buffer and every n >= 0; b4tot4 ends
\* on every word, those that are not 0 and have a mantissa of 0 included:
\* its while loop, which shifts the mantissa until bit 31 is set and ends
\* for no other reason, never stands at a mantissa of 0, which no shift
\* changes
C15_Terminates == conv.pc = "b4shift" => Mantissa(conv) # 0

(***************************************************************************)
(* Properties of e_comp and of the round trip                              *)
(***************************************************************************)
Fits28(v) == -134217728 <= v /\ v <= 134217727

\* a call on a signal of a sample at least, with a valid tag and no null
PlainCall(e) ==
    /\ ~e.nullin /\ ~e.nullout /\ ~e.nullob
    /\ e.insamp = Len(e.in) /\ e.insamp >= 1
    /\ e.tag \in ValidTags

\* e_comp returned SUCCESS, and e_decomp of the whole stream returned
\* SUCCESS with the samples of the signal
RoundTrip(e) ==
    /\ e.pc # "call" => (e.pc = "done" /\ e.ret = EC_SUCCESS)
    /\ \A id \in DOMAIN dcall :
           LET c == dcall[id]
           IN  (c.pc = "done" /\ c.out0 = 0 /\ c.outsamp = e.insamp) =>
                   /\ c.ret = EC_SUCCESS
                   /\ c.out = [i \in 1..e.insamp |-> <<e.in[i]>>]

\* C1: for every signal of samples that fit in 28 signed bits, every valid
\* tag and either flag, e_comp returns SUCCESS and e_decomp of the stream,
\* with insamp = len(x), inbyte = *outbytes, out0 = 0, outsamp = len(x),
\* returns SUCCESS with the samples of the signal
C1_RoundTrip28 ==
    (PlainCall(ecall) /\ \A i \in DOMAIN ecall.in : Fits28(ecall.in[i]))
        => RoundTrip(ecall)

\* C2: for every signal with a sample that does not fit in 28 signed bits,
\* e_comp and then e_decomp of the whole stream return SUCCESS and recover the
\* signal
C2_RoundTripWide ==
    (PlainCall(ecall) /\ \E i \in DOMAIN ecall.in : ~Fits28(ecall.in[i]))
        => RoundTrip(ecall)

\* C4: every block header e_comp writes has 0 <= nsamp <= 4096,
\* 8 <= nbyte <= 16384, nbyte a multiple of 4 and
\* nsamp + 8 <= nbyte <= (nsamp + 2) * 4
C4_HeaderInvariants ==
    \A k \in DOMAIN ecall.blks :
        LET hdr == RdWord(ecall.out, 0, ecall.blks[k].off)
            nbyte == Bits(hdr, 16, 16)
            nsamp == Bits(hdr, 0, 16)
        IN  /\ 0 <= nsamp /\ nsamp <= 4096
            /\ 8 <= nbyte /\ nbyte <= 16384
            /\ nbyte % 4 = 0
            /\ nsamp + 8 <= nbyte /\ nbyte <= (nsamp + 2) * 4

NothingStored(e) == e.out = <<>> /\ e.ob = <<>>

\* C10: for every tag outside e0..e8 and E0..E9, e_comp returns
\* TYPE_ERROR and writes neither the output buffer nor *outbytes, whatever
\* the other arguments
C10_TypeError ==
    (ecall.pc # "call" /\ ecall.tag \notin ValidTags) =>
        (ecall.pc = "done" /\ ecall.ret = EC_TYPE_ERROR /\ NothingStored(ecall))

(***************************************************************************)
(* e_decomp_inplace and e_comp_inplace.  ecall holds the activation record *)
(* of the wrapper: fn, the arguments of the inner call (arg), the scratch  *)
(* buffer out ("none", "live" or "freed"), the calls of free made (frees), *)
(* whether the scratch was read or written while not live (late), the      *)
(* calls of the inner codec made (inner), what it handed back (res) and    *)
(* what was copied to in (copied: <<>> none, else <<words>>).  pc is       *)
(*   "malloc" before the allocation       "memset" before the memset       *)
(*   "inner"  before the inner call       "test"   at if (ret != SUCCESS)  *)
(*   "free"   before the last free        "done"   returned, with code ret *)
(*   "fault"  the inner call ended the process                             *)
(***************************************************************************)
NewWrap(fn, arg) ==
    [fn |-> fn, arg |-> arg, pc |-> "malloc", scratch |-> "none", frees |-> 0,
     late |-> FALSE, inner |-> 0, ret |-> -1, res |-> <<>>, copied |-> <<>>]

InitIn ==
    /\ \/ \E e \in ECalls : Len(e.in) <= 2 /\ ~e.nullout
                              /\ ecall = NewWrap("e_comp_inplace", e)
       \/ \E b \in GoodBlocks \cup BadBlocks : \E c \in CallsOn(<<b>>) :
              ~c.nullout /\ ecall = NewWrap("e_decomp_inplace", c)
    /\ dcall = <<>>
    /\ unbuf = <<>>
    /\ conv = <<>>

\* out = malloc(...); if (!out) return EC_MEMORY_ERROR;  malloc may fail
InMalloc ==
    /\ ecall.pc = "malloc"
    /\ \E ok \in BOOLEAN :
          ecall' = IF ok THEN [ecall EXCEPT !.scratch = "live", !.pc = "memset"]
                   ELSE [ecall EXCEPT !.ret = EC_MEMORY_ERROR, !.pc = "done"]
    /\ UNCHANGED <<dcall, unbuf, conv>>

\* memset(out, 0, ...), a write of the scratch buffer
InMemset ==
    /\ ecall.pc = "memset"
    /\ ecall' = [ecall EXCEPT !.late = ecall.late \/ ecall.scratch # "live",
                              !.pc = "inner"]
    /\ UNCHANGED <<dcall, unbuf, conv>>

\* ret = e_comp(in, out, ...) or ret = e_decomp(in, out, ...), out the scratch
InInner ==
    /\ ecall.pc = "inner"
    /\ \E junk \in JunkWords :
          LET r == IF ecall.fn = "e_comp_inplace"
                   THEN EComp(ecall.arg.in, ecall.arg.nullin, FALSE, ecall.arg.nullob,
                              ecall.arg.insamp, ecall.arg.tag, ecall.arg.block_flag)
                   ELSE EDecompRun(ecall.arg, <<>>, junk).c
          IN  ecall' = [ecall EXCEPT
                          !.late = ecall.late \/ ecall.scratch # "live",
                          !.inner = ecall.inner + 1, !.ret = r.ret, !.res = r.out,
                          !.pc = IF r.ret = -1 THEN "fault" ELSE "test"]
    /\ UNCHANGED <<dcall, unbuf, conv>>

\* Exit of the error path without the free
FailExit_NoFree(w) == [w EXCEPT !.pc = "done"]

\* if (ret != EC_SUCCESS) { free(out); return ret; }
FailExit(w) ==
    [w EXCEPT !.scratch = "freed", !.frees = w.frees + 1, !.pc = "done"]

InFail ==
    /\ ecall.pc = "test" /\ ecall.ret # EC_SUCCESS
    /\ ecall' = FailExit(ecall)
    /\ UNCHANGED <<dcall, unbuf, conv>>

\* memcpy(in, out, ...)
InCopy ==
    /\ ecall.pc = "test" /\ ecall.ret = EC_SUCCESS
    /\ ecall' = [ecall EXCEPT !.late = ecall.late \/ ecall.scratch # "live",
                              !.copied = <<ecall.res>>, !.pc = "free"]
    /\ UNCHANGED <<dcall, unbuf, conv>>

\* free(out); return EC_SUCCESS;
InFree ==
    /\ ecall.pc = "free"
    /\ ecall' = [ecall EXCEPT !.scratch = "freed", !.frees = ecall.frees + 1,
                              !.ret = EC_SUCCESS, !.pc = "done"]
    /\ UNCHANGED <<dcall, unbuf, conv>>

NextIn == InMalloc \/ InMemset \/ InInner \/ InFail \/ InCopy \/ InFree

SpecIn == InitIn /\ [][NextIn]_vars

\* C17: in e_decomp_inplace and e_comp_inplace the scratch buffer, once
\* allocated, is released exactly once on every exit path, the success and
\* every error return of the inner call, and is never read or written after
\* its release; a failed allocation returns MEMORY_ERROR without a call of
\* the inner codec
C17_ScratchReleased ==
    /\ ~ecall.late
    /\ ecall.frees <= 1
    /\ ecall.pc = "done" =>
           IF ecall.scratch = "none"
           THEN ecall.ret = EC_MEMORY_ERROR /\ ecall.inner = 0 /\ ecall.frees = 0
           ELSE ecall.scratch = "freed" /\ ecall.frees = 1 /\ ecall.inner = 1

\* a return of e_decomp_inplace with the error code of e_decomp, the
\* scratch buffer released
C17_Witness ==
    /\ ecall.pc = "done" /\ ecall.fn = "e_decomp_inplace"
    /\ ecall.ret = EC_CHECK_ERROR /\ ecall.scratch = "freed"

\* the stream e_comp wrote, with the zero words of its last block
Stream(e) == e.out \o Zeros(e.pad)

\* what block_e_decomp makes of block bk of the stream of e_comp
Decoded(e, bk, junk) == BlockDecomp(Stream(e), 0, bk.off, <<>>, junk)

BlockRow(e, bk) ==
    DiffRows(SubSeq(e.in, bk.first + 1,
                    bk.first + MaxSamp(Len(e.in) - bk.first, BufBytes(e.tag))))
        [bk.ndiff + 1]

\* C18: every difference e_comp places in a packet fits the signed field of
\* the packet, 7, 9, 10, 12, 15 or 28 bits wide, so that the packet loop of
\* block_e_decomp gives back the differences that were encoded, at every
\* position of the block, those from bufints on included
C18_FieldsFit ==
    \A k \in DOMAIN ecall.blks :
        ~ecall.blks[k].unc =>
            UnpackLoop(Stream(ecall), 0, ecall.blks[k].off, ecall.blks[k].nsamp).w =
                SubSeq(BlockRow(ecall, ecall.blks[k]), 1, ecall.blks[k].nsamp)

\* C19: a block whose packet loop was left by the break, the next value of
\* the chosen row taking more than 28 bits, has nbyte = bufbytes and zeros
\* in all the words behind its packets, and the block after it, which starts
\* at the sample the loop stopped at, is left uncompressed
C19_BreakThenVerbatim ==
    \A k \in DOMAIN ecall.blks :
        ecall.blks[k].brk =>
            /\ ecall.blks[k].nbyte = BufBytes(ecall.tag)
            /\ \A i \in UnpackLoop(Stream(ecall), 0, ecall.blks[k].off,
                                   ecall.blks[k].nsamp).q
                        .. (ecall.blks[k].off + (BufBytes(ecall.tag) \div SIZEOF_INT32) - 1) :
                   RdWord(Stream(ecall), 0, i) = 0
            /\ k + 1 \in DOMAIN ecall.blks
            /\ ecall.blks[k + 1].first = ecall.blks[k].first + ecall.blks[k].nsamp
            /\ ecall.blks[k + 1].unc

\* C20: a block that covers a sample of magnitude 2^28 or more has bit 0x10
\* of its byte 4 set and holds its samples as they are, one 32-bit word
\* each
C20_WideVerbatim ==
    \A k \in DOMAIN ecall.blks :
        (\E i \in 1..ecall.blks[k].nsamp :
             \/ ecall.in[ecall.blks[k].first + i] >= Pow2(28)
             \/ ecall.in[ecall.blks[k].first + i] <= -Pow2(28))
        => /\ Bits(RdWord(Stream(ecall), 0, ecall.blks[k].off + 1), 28, 1) = 1
           /\ \A i \in 1..ecall.blks[k].nsamp :
                  RdWord(Stream(ecall), 0, ecall.blks[k].off + 1 + i) =
                      ecall.in[ecall.blks[k].first + i]

\* the nbyte field of the header of block k of the stream of e
HdrNbyte(e, k) == Bits(RdWord(Stream(e), 0, e.blks[k].off), 16, 16)

RECURSIVE SumNbyte(_, _)
SumNbyte(e, k) == IF k = 0 THEN 0 ELSE HdrNbyte(e, k) + SumNbyte(e, k - 1)

\* C21: in a stream of e_comp every block but the last has nbyte = bufbytes
\* and the next block starts nbyte bytes behind its start; the last block
\* has nbyte = bufbytes under EC_FULL_END and, under EC_SHORT_END, 8 bytes
\* and 4 for each packet word written, 4 * (nsamp + 2) when it is
\* uncompressed; *outbytes is the sum of the nbyte fields
C21_BlockLengths ==
    /\ \A k \in DOMAIN ecall.blks :
           IF k < Len(ecall.blks)
           THEN /\ HdrNbyte(ecall, k) = BufBytes(ecall.tag)
                /\ SIZEOF_INT32 * ecall.blks[k + 1].off =
                       SIZEOF_INT32 * ecall.blks[k].off + HdrNbyte(ecall, k)
           ELSE IF ecall.block_flag = EC_FULL_END
           THEN HdrNbyte(ecall, k) = BufBytes(ecall.tag)
           ELSE IF ecall.blks[k].unc
           THEN HdrNbyte(ecall, k) = SIZEOF_INT32 * (ecall.blks[k].nsamp + 2)
           ELSE HdrNbyte(ecall, k) =
                    SIZEOF_INT32 * (UnpackLoop(Stream(ecall), 0, ecall.blks[k].off,
                                               ecall.blks[k].nsamp).q
                                        - ecall.blks[k].off)
    /\ ecall.blks # <<>> => /\ ecall.ret = EC_SUCCESS
                            /\ ecall.ob = <<SumNbyte(ecall, Len(ecall.blks))>>

\* a call with EC_SHORT_END that wrote a block left by the break and then a
\* last block, uncompressed
C21_Witness ==
    /\ ecall.pc = "done" /\ ecall.block_flag = EC_SHORT_END
    /\ Len(ecall.blks) = 2 /\ ecall.blks[1].brk /\ ecall.blks[2].unc

\* samps after the packet loop of a block of nsamp samples whose packets
\* start at word q, counted from the kinds of the packets alone: 7, 3, 4, 5,
\* 4 or 1 samples each
RECURSIVE PacketTotal(_, _, _, _, _)
PacketTotal(mem, beyond, q, nsamp, samps) ==
    IF samps >= nsamp THEN samps
    ELSE PacketTotal(mem, beyond,
                     q + PacketWords(PacketIndex(RdWord(mem, beyond, q))), nsamp,
                     samps + <<7, 3, 4, 5, 4, 1>>[PacketIndex(RdWord(mem, beyond, q)) + 1])

\* block p of call c is a compressed block that passes the tests of the
\* header and of the count of differences
ReachesPackets(c, p) ==
    /\ HeaderCheck(Bits(RdWord(c.mem, c.beyond, p), 16, 16),
                   Bits(RdWord(c.mem, c.beyond, p), 0, 16)) = EC_SUCCESS
    /\ Bits(RdWord(c.mem, c.beyond, p + 1), 28, 1) = 0
    /\ Bits(RdWord(c.mem, c.beyond, p + 1), 24, 4) <= EC_MAX_NDIFF

\* C22: on a compressed block block_e_decomp returns SUCCESS only if the
\* counts of samples of the packets it consumed add up to nsamp exactly;
\* when the last packet takes the count past nsamp it returns SAMP_ERROR
\* and has stored nsamp + 6 samples at most
C22_SampleCount ==
    \A id \in DOMAIN dcall : \A i \in DOMAIN dcall[id].blocks : \A junk \in JunkWords :
        ReachesPackets(dcall[id], dcall[id].blocks[i]) =>
            /\ BlockDecomp(dcall[id].mem, dcall[id].beyond, dcall[id].blocks[i],
                           unbuf, junk).ret = EC_SUCCESS
                   => PacketTotal(dcall[id].mem, dcall[id].beyond,
                                  dcall[id].blocks[i] + 2,
                                  Bits(RdWord(dcall[id].mem, dcall[id].beyond,
                                              dcall[id].blocks[i]), 0, 16), 0)
                          = Bits(RdWord(dcall[id].mem, dcall[id].beyond,
                                        dcall[id].blocks[i]), 0, 16)
            /\ PacketTotal(dcall[id].mem, dcall[id].beyond, dcall[id].blocks[i] + 2,
                           Bits(RdWord(dcall[id].mem, dcall[id].beyond,
                                       dcall[id].blocks[i]), 0, 16), 0)
                   > Bits(RdWord(dcall[id].mem, dcall[id].beyond,
                                 dcall[id].blocks[i]), 0, 16)
                   => /\ BlockDecomp(dcall[id].mem, dcall[id].beyond,
                                     dcall[id].blocks[i], unbuf, junk).ret
                             = EC_SAMP_ERROR
                      /\ Len(BlockDecomp(dcall[id].mem, dcall[id].beyond,
                                         dcall[id].blocks[i], unbuf, junk).w)
                             <= Bits(RdWord(dcall[id].mem, dcall[id].beyond,
                                            dcall[id].blocks[i]), 0, 16) + 6
                      /\ i = Len(dcall[id].blocks) => dcall[id].ret = EC_SAMP_ERROR

\* a call that ended with SAMP_ERROR on a compressed block whose last
\* packet took the count of samples to nsamp + 6
C22_Witness ==
    \E id \in DOMAIN dcall :
        /\ dcall[id].pc = "done" /\ dcall[id].ret = EC_SAMP_ERROR
        /\ dcall[id].blocks # <<>>
        /\ ReachesPackets(dcall[id], dcall[id].blocks[Len(dcall[id].blocks)])
        /\ PacketTotal(dcall[id].mem, dcall[id].beyond,
                       dcall[id].blocks[Len(dcall[id].blocks)] + 2,
                       Bits(RdWord(dcall[id].mem, dcall[id].beyond,
                                   dcall[id].blocks[Len(dcall[id].blocks)]), 0, 16), 0)
               = Bits(RdWord(dcall[id].mem, dcall[id].beyond,
                             dcall[id].blocks[Len(dcall[id].blocks)]), 0, 16) + 6

\* the stream mem with v stored in the control word and in every payload
\* word of each block that lies before sample out0 as a whole, the headers
\* being followed from word p, where skipsamp samples are behind
RECURSIVE Scramble(_, _, _, _, _)
Scramble(mem, out0, p, skipsamp, v) ==
    IF p + 1 > Len(mem) THEN mem
    ELSE IF \/ Bits(mem[p + 1], 16, 16) < 2 * SIZEOF_INT32
            \/ Bits(mem[p + 1], 16, 16) % SIZEOF_INT32 # 0
            \/ p + (Bits(mem[p + 1], 16, 16) \div SIZEOF_INT32) > Len(mem)
            \/ skipsamp + Bits(mem[p + 1], 0, 16) > out0
    THEN mem
    ELSE Scramble([i \in 1..Len(mem) |->
                      IF p + 1 < i /\ i <= p + (Bits(mem[p + 1], 16, 16) \div SIZEOF_INT32)
                      THEN v ELSE mem[i]],
                  out0, p + (Bits(mem[p + 1], 16, 16) \div SIZEOF_INT32),
                  skipsamp + Bits(mem[p + 1], 0, 16), v)

\* what the words of the skipped blocks are replaced with: zeros, ones, a
\* control word of 15 differences
ScrambleWords == {0, -1, 251658240}

\* the call c made again, from its entry, on the scrambled stream
Scrambled(c, v) ==
    NewCall(Scramble(c.mem, c.out0, 0, 0, v), c.beyond, c.nullin, c.nullout,
            c.insamp, c.inbyte, c.out0, c.outsamp, c.over)

\* C23: the code e_decomp returns and the samples it stores do not depend
\* on the control word and the payload of the blocks that lie before out0
\* as a whole: a stream that differs in those words alone gives the same
\* result
C23_SkippedUnread ==
    \A id \in DOMAIN dcall : \A v \in ScrambleWords :
        dcall[id].pc = "done" =>
            \E junk \in JunkWords :
                /\ EDecompRun(Scrambled(dcall[id], v), <<>>, junk).c.ret = dcall[id].ret
                /\ EDecompRun(Scrambled(dcall[id], v), <<>>, junk).c.out = dcall[id].out

\* a call that skipped a block and returned samples of a later one, on a
\* stream whose skipped block holds other words than v
C23_Witness ==
    \E id \in DOMAIN dcall : \E v \in ScrambleWords :
        /\ dcall[id].pc = "done" /\ dcall[id].ret = EC_SUCCESS
        /\ dcall[id].out0 > 0 /\ dcall[id].skipsamp > 0 /\ dcall[id].outsamp > 0
        /\ Scrambled(dcall[id], v).mem # dcall[id].mem
        /\ Scrambled(dcall[id], v).mem[2] = v
        /\ dcall[id].out[1] # <<>>

\* the arguments of the call e pass the tests of e_comp
Validated(e) ==
    /\ BufBytes(e.tag) >= 0 /\ e.insamp > 0
    /\ ~e.nullin /\ ~e.nullout /\ ~e.nullob

\* C24: a call of e_comp whose arguments pass the tests comes to its end:
\* every iteration of the block loop emits a block of a sample at least and
\* moves on by the samples of the block, the loop is left when the input
\* is used up and not before, and the call returns SUCCESS, never
\* EC_FAILED
C24_Terminates ==
    (ecall # <<>> /\ ecall.pc # "call" /\ Validated(ecall)) =>
        /\ ecall.pc = "done" /\ ecall.ret = EC_SUCCESS
        /\ ecall.blks # <<>> /\ ecall.blks[1].first = 0
        /\ \A k \in DOMAIN ecall.blks :
               /\ ecall.blks[k].nsamp >= 1
               /\ Bits(RdWord(Stream(ecall), 0, ecall.blks[k].off), 0, 16) =
                      ecall.blks[k].nsamp
               /\ ecall.blks[k].first + ecall.blks[k].nsamp =
                      IF k < Len(ecall.blks) THEN ecall.blks[k + 1].first
                      ELSE ecall.insamp

\* a call that returned after two iterations of the block loop
C24_Witness ==
    /\ ecall # <<>> /\ ecall.pc = "done" /\ Validated(ecall)
    /\ Len(ecall.blks) >= 2 /\ ecall.ret = EC_SUCCESS

\* the row of the table a recognised tag names
Row(tag) == datatype[CHOOSE i \in 1..NDATATYPE :
                         BytesBE(datatype[i].name) = <<tag[1], tag[2], 0, 0>>]

\* C25: for a recognised tag X other than t8 whose row has a t8 routine the
\* plan from X to t8 is the one step to_t8 of the row and the plan from t8 to
\* X the one step from_t8 (t4 and s2 among them, which do not go through
\* s4); a tag whose row has none goes through s4
C25_T8Pivot ==
    (conv.intype \in KnownTags /\ conv.outtype \in KnownTags /\ conv.pc # "plan"
       /\ conv.intype # conv.outtype) =>
        /\ conv.outtype = Chars("t8") =>
               /\ conv.plan.ret = CONV_SUCCESS
               /\ conv.plan.func =
                      IF Row(conv.intype).have_t8 # 0
                      THEN <<Row(conv.intype).to_t8_func>>
                      ELSE <<Row(conv.intype).to_s4_func, "s4tot8">>
        /\ conv.intype = Chars("t8") =>
               /\ conv.plan.ret = CONV_SUCCESS
               /\ conv.plan.func =
                      IF Row(conv.outtype).have_t8 # 0
                      THEN <<Row(conv.outtype).from_t8_func>>
                      ELSE <<"t8tos4", Row(conv.outtype).from_s4_func>>

\* C26: for every ordered pair of recognised tags but f4 -> t4 and t4 -> f4
\* convdata runs the routines convfunc lists for the pair, the same ones in
\* the same order, 0 to 3 of them, and returns; for f4 -> t4 and t4 -> f4
\* convfunc lists f4tot4 and t4tof4 and convdata runs f4tot4x and t4tof4x
C26_DataRunsPlan ==
    (conv.intype \in KnownTags /\ conv.outtype \in KnownTags
       /\ conv.pc \notin {"plan", "data"}) =>
        /\ conv.pc = "done"
        /\ conv.plan.nfunc \in 0..3
        /\ IF conv.intype = Chars("f4") /\ conv.outtype = Chars("t4")
           THEN conv.plan.func = <<"f4tot4">> /\ conv.data.calls = <<"f4tot4x">>
           ELSE IF conv.intype = Chars("t4") /\ conv.outtype = Chars("f4")
           THEN conv.plan.func = <<"t4tof4">> /\ conv.data.calls = <<"t4tof4x">>
           ELSE conv.data.calls = conv.plan.func

\* the long of bytes v is so large that an add of s4tog2 on a long of 4
\* bytes may pass the largest long, which leaves the outcome open
PastLong(b, v) == b.longbytes = 4 /\ v[1] < 128 /\ Low31(v) > 2147483647 - 1048511

\* the memory with long k of m as its only sample, at buf
AloneAt(b, m, k) == WrNat(b, m, 0, RdNat(b, m, b.longbytes * k, b.longbytes))

\* C27: after s4tog2(buf, n), for every n and every sample k < n, the short
\* at index k is the short that s4tog2(buf, 1) stores for long k alone, so
\* it depends neither on the loop that took the sample (the groups of 5 or
\* the rest) nor on its place in the group; and a sample that fits no tier
\* is stored as 0xffff
C27_PerSample ==
    (conv.chain = <<"s4tog2">> /\ conv.pc = "done") =>
        \A k \in 0..(conv.n - 1) :
            ~PastLong(conv.build, RdNat(conv.build, conv.orig,
                                        conv.build.longbytes * k,
                                        conv.build.longbytes)) =>
                /\ RdNat(conv.build, conv.mem, 2 * k, 2) =
                       RdNat(conv.build,
                             Routine(conv.build, "s4tog2",
                                     AloneAt(conv.build, conv.orig, k), 1), 0, 2)
                /\ S4ToG2(RdNat(conv.build, conv.orig, conv.build.longbytes * k,
                                conv.build.longbytes)) = -1 =>
                       RdNat(conv.build, conv.mem, 2 * k, 2) = <<255, 255>>

\* e_comp was called on 1, 2, ..., 7 with "e1" and EC_SHORT_END
Trivial ==
    /\ ecall.pc = "done" /\ ecall.in = <<1, 2, 3, 4, 5, 6, 7>>
    /\ ecall.tag = Tag("e", 1) /\ ecall.block_flag = EC_SHORT_END

\* the kinds (indices of index_map) of the packets of block bk of e, in
\* the order of the stream
PacketKinds(e, bk) ==
    [i \in 1..((bk.nbyte \div SIZEOF_INT32) - 2) |->
        PacketIndex(RdWord(Stream(e), 0, bk.off + 1 + i))]

\* C28: e_comp on 1, 2, ..., 7 with "e1" and EC_SHORT_END gives one block
\* with differencing depth 1, the differences all 1, one packet of 7
\* samples of 9 bits as its payload, nbyte = 16 and the check value 7
C28_TrivialDepth1 ==
    Trivial =>
        /\ ecall.ret = EC_SUCCESS /\ Len(ecall.blks) = 1
        /\ ecall.blks[1].ndiff = 1
        /\ BlockRow(ecall, ecall.blks[1]) = <<1, 1, 1, 1, 1, 1, 1>>
        /\ PacketIndex(RdWord(Stream(ecall), 0, 2)) = 0
        /\ ecall.blks[1].nbyte = 16
        /\ Bits(RdWord(Stream(ecall), 0, 1), 0, 24) = 7

\* C28, amended: the block has differencing depth 2, the row with the
\* least sum of magnitudes (1, 0, 0, 0, 0, 0, 0), and its payload is a
\* packet of 4 samples of 7 bits and a packet of 3 samples of 10 bits, one
\* word each; nsamp = 7, nbyte = 16 and the check value is 7
C28_TrivialDepth2 ==
    Trivial =>
        /\ ecall.ret = EC_SUCCESS /\ Len(ecall.blks) = 1
        /\ ecall.ob = <<16>>
        /\ ~ecall.blks[1].unc /\ ecall.blks[1].ndiff = 2
        /\ BlockRow(ecall, ecall.blks[1]) = <<1, 0, 0, 0, 0, 0, 0>>
        /\ ecall.blks[1].nsamp = 7 /\ ecall.blks[1].nbyte = 16
        /\ Stream(ecall) = <<MkW(16, 7), MkW(512, 7), MkW(49184, 0), MkW(32768, 0)>>
        /\ PacketKinds(ecall, ecall.blks[1]) = <<2, 1>>
        /\ Bits(RdWord(Stream(ecall), 0, 1), 0, 24) = 7

C28_Witness == Trivial /\ Len(ecall.blks) = 1 /\ ecall.blks[1].nsamp = 7

\* the 8 bits of the exponent of the VAX float at offset a of m
VaxExp(m, a) == (m[a + 1] % 128) * 2 + m[a] \div 128

\* C29: f4tot4x stores 00 00 00 00 for every float whose VAX exponent is
\* 0, 1 or 2, whatever its sign and mantissa; for every other float the
\* decrement of the exponent byte takes nothing from the sign bit, so the
\* sign that arrives in byte 0 is the sign of the input
C29_LowExponent ==
    (conv.chain = <<"f4tot4x">> /\ conv.pc = "done") =>
        \A k \in 0..(conv.n - 1) :
            IF VaxExp(conv.orig, 4 * k) \in {0, 1, 2}
            THEN Bytes(conv.mem, 4 * k, 4) = <<0, 0, 0, 0>>
            ELSE (conv.mem[4 * k] >= 128) = (conv.orig[4 * k + 1] >= 128)

\* the 11 bits of the exponent of the IEEE double at offset a of m
IeeeExp(m, a) == (m[a] % 128) * 16 + m[a + 1] \div 16

\* C30: t8tof8 stores the largest VAX value, ff 7f ff ff ff ff ff ff, for
\* every double whose IEEE exponent is 0x7fe or more, and for every other
\* double the add to the exponent carries nothing into the sign bit, so
\* the sign that arrives in byte 1 is the sign of the input
C30_Saturates ==
    (conv.chain = <<"t8tof8">> /\ conv.pc = "done") =>
        \A k \in 0..(conv.n - 1) :
            IF IeeeExp(conv.orig, 8 * k) >= 2046
            THEN Bytes(conv.mem, 8 * k, 8) = <<255, 127, 255, 255, 255, 255, 255, 255>>
            ELSE (conv.mem[8 * k + 1] >= 128) = (conv.orig[8 * k] >= 128)

====
